---- MODULE Spec2Model ----
(***************************************************************************)
(* PalmSim: the assimilate partitioner, the vegetative organs, the bunch   *)
(* components, the inflorescence cohorts and the cohort container, as one  *)
(* state machine driven by PalmField.update.                               *)
(*                                                                         *)
(* Numbers.  The program computes in floats; the model computes in         *)
(* integers of a fixed unit per quantity and rounds every division down:   *)
(*   time                        day                                        *)
(*   fractions, indices          1/ONE                                      *)
(*   per-inflorescence mass/flux 1e-5 kg          (MU)                      *)
(*   num_inflorescences          1/100 inflorescence                        *)
(*   per-hectare mass/flux       g                                          *)
(*   frond count                 1/100 frond                                *)
(* exp() is replaced by its Taylor polynomial (ExpNeg), the logistic of    *)
(* Cohorts.t_maturity by the rational (1+x)/(2+x), and the cubic splines   *)
(* of Trunk and Roots by straight lines through the control points.        *)
(* Weather, soil and the canopy photosynthesis integral are the            *)
(* environment: the radiation of a run and the value Fronds.assim_produced *)
(* has when there is light are inputs.                                     *)
(*                                                                         *)
(* A method whose later statements read the result of earlier ones is      *)
(* written as a chain of operators, each handing what it computed to the   *)
(* next as an argument.                                                    *)
(***************************************************************************)
EXTENDS Integers, Sequences, FiniteSets, TLC

(***************************************************************************)
(* Bounds of the model.                                                    *)
(***************************************************************************)
MaxDAP == 840
MaxSteps == 30
MaxChanges == 1
MaxLen == 3
MaxDemand == 3
MaxSupply == 8

(***************************************************************************)
(* Arithmetic helpers.                                                     *)
(***************************************************************************)
\* the fixed-point unit: four decimal digits
ONE == 10 ^ 4

Min(a, b) == IF a <= b THEN a ELSE b

Max(a, b) == IF a >= b THEN a ELSE b

RECURSIVE SumSeq(_)
SumSeq(s) == IF s = <<>> THEN 0 ELSE Head(s) + SumSeq(Tail(s))

RECURSIVE Gcd(_, _)
Gcd(a, b) == IF b = 0 THEN a ELSE Gcd(b, a % b)

RECURSIVE LcmUpTo(_)
LcmUpTo(n) == IF n <= 1 THEN 1 ELSE LET l == LcmUpTo(n - 1) IN (l * n) \div Gcd(l, n)

\* exp(-y/ONE) * ONE for 0 <= y <= 2*ONE: Taylor polynomial of degree 6,
\* evaluated by Horner's rule, clamped to [0, ONE].
ExpNeg(y) ==
    LET h6 == ONE - (y \div 6)
        h5 == ONE - ((y * h6) \div (5 * ONE))
        h4 == ONE - ((y * h5) \div (4 * ONE))
        h3 == ONE - ((y * h4) \div (3 * ONE))
        h2 == ONE - ((y * h3) \div (2 * ONE))
        h1 == ONE - ((y * h2) \div ONE)
    IN  Max(0, Min(ONE, h1))

\* a * b = q * c + r with 0 <= r < c, computed by halving b so that no
\* intermediate value exceeds 3 * c + a (a, b >= 0 and c > 0)
RECURSIVE MulDivRem(_, _, _)
MulDivRem(a, b, c) ==
    IF b = 0 THEN [q |-> 0, r |-> 0]
    ELSE LET half == MulDivRem(a, b \div 2, c)
             r2 == 2 * half.r + (IF b % 2 = 1 THEN a % c ELSE 0)
             q2 == 2 * half.q + (IF b % 2 = 1 THEN a \div c ELSE 0)
         IN  [q |-> q2 + r2 \div c, r |-> r2 % c]

\* floor(a * b / c)
MulDiv(a, b, c) == MulDivRem(a, b, c).q

(***************************************************************************)
(* assimilates.py: the partitioning functions.  The prioritization         *)
(* parameter k is given in units of 1/KDen.                                *)
(***************************************************************************)
KDen == ONE \div 2000

vegetative_priority == 4

\* the loop over Ds[:-1] without S -= D: every demand is served from the
\* whole supply
prioritized_loop_keeping_supply(S, Ds) ==
    [Ss |-> [i \in 1..(Len(Ds) - 1) |-> Min(Ds[i], S)], S |-> S]

\* the loop over Ds[:-1]: the shares appended so far and the supply left
RECURSIVE prioritized_loop(_, _)
prioritized_loop(S, Ds) ==
    IF Len(Ds) <= 1 THEN [Ss |-> <<>>, S |-> S]
    ELSE LET D == Head(Ds)
             rest == IF D < S THEN prioritized_loop(S - D, Tail(Ds))
                               ELSE prioritized_loop(0, Tail(Ds))
         IN  [Ss |-> <<(IF D < S THEN D ELSE S)>> \o rest.Ss, S |-> rest.S]

\* prioritized_partitioning with the last share held to its demand
prioritized_partitioning_capped(S, Ds) ==
    LET r == prioritized_loop(S, Ds)
        Ss == r.Ss \o <<Min(r.S, Ds[Len(Ds)])>>
    IN  [i \in 1..Len(Ss) |-> IF Ss[i] < 0 THEN 0 ELSE Ss[i]]

prioritized_partitioning(S, Ds) ==
    LET r == prioritized_loop(S, Ds)
        Ss == r.Ss \o <<r.S>>
    IN  [i \in 1..Len(Ss) |-> IF Ss[i] < 0 THEN 0 ELSE Ss[i]]

\* S / sum(Ds) raises ZeroDivisionError when the demands add up to 0
proportionate_raises(S, Ds) == SumSeq(Ds) = 0

\* proportionate_partitioning dividing by the number of demands: equal shares
proportionate_partitioning_equal(S, Ds) ==
    IF SumSeq(Ds) = 0 THEN <<>>
    ELSE [i \in 1..Len(Ds) |-> S \div Len(Ds)]

\* proportionate_partitioning guarding the division: no share for anyone
\* when the demands add up to 0
proportionate_partitioning_guarded(S, Ds) ==
    LET total_demand == SumSeq(Ds)
    IN  IF total_demand = 0 THEN [i \in 1..Len(Ds) |-> 0]
        ELSE [i \in 1..Len(Ds) |-> MulDiv(S, Ds[i], total_demand)]

proportionate_partitioning(S, Ds) ==
    LET total_demand == SumSeq(Ds)
    IN  IF total_demand = 0 THEN <<>>
        ELSE [i \in 1..Len(Ds) |-> MulDiv(S, Ds[i], total_demand)]

\* parametrized_partitioning adding up both partitionings without the
\* weights k and 1 - k
parametrized_partitioning_unweighted(S, Ds, k) ==
    LET prio == prioritized_partitioning(S, Ds)
        prop == proportionate_partitioning(S, Ds)
    IN  IF proportionate_raises(S, Ds) THEN <<>>
        ELSE [i \in 1..Len(Ds) |-> prio[i] + prop[i]]

\* parametrized_partitioning with k weighting the proportionate shares
parametrized_partitioning_swapped(S, Ds, k) ==
    LET prio == prioritized_partitioning(S, Ds)
        prop == proportionate_partitioning(S, Ds)
    IN  IF proportionate_raises(S, Ds) THEN <<>>
        ELSE [i \in 1..Len(Ds) |-> ((KDen - k) * prio[i] + k * prop[i]) \div KDen]

parametrized_partitioning(S, Ds, k) ==
    LET prio == prioritized_partitioning(S, Ds)
        prop == proportionate_partitioning(S, Ds)
    IN  IF proportionate_raises(S, Ds) THEN <<>>
        ELSE [i \in 1..Len(Ds) |-> (k * prio[i] + (KDen - k) * prop[i]) \div KDen]

(***************************************************************************)
(* palm.py: the calendar kept by PalmField.                                *)
(***************************************************************************)
year_of_planting == 2001

month_of_planting == 6

day_of_planting == 15

planting_density == 143

isleap(year) == (year % 4 = 0) /\ ((year % 100 # 0) \/ (year % 400 = 0))

monthrange(year, month) ==
    IF month = 2 THEN (IF isleap(year) THEN 29 ELSE 28)
    ELSE IF month \in {4, 6, 9, 11} THEN 30 ELSE 31

\* self.time += timedelta(days = n)
RECURSIVE AddDays(_, _)
AddDays(t, n) ==
    LET dim == monthrange(t.year, t.month)
    IN  IF t.day + n <= dim THEN [t EXCEPT !.day = t.day + n]
        ELSE AddDays([year |-> IF t.month = 12 THEN t.year + 1 ELSE t.year,
                      month |-> IF t.month = 12 THEN 1 ELSE t.month + 1,
                      day |-> 1],
                     n - (dim - t.day) - 1)

YAP(t) == t.year - year_of_planting

MAP(t) == 12 * YAP(t) + (t.month - month_of_planting)

days_in_month(t) == monthrange(t.year, t.month)

days_in_year(t) == IF isleap(t.year) THEN 366 ELSE 365

(***************************************************************************)
(* bunch_components.py                                                     *)
(* Thresholds that are fractions of t_maturity are kept in ticks of        *)
(* 1/TICKS day, the fractions themselves in 1/TICKS.                       *)
(***************************************************************************)
TICKS == ONE \div 50

None == 0

default_t_maturity == 1200

conversion_efficiency ==
    [stalk |-> 69, mesocarp_fibers |-> 69, mesocarp_oil |-> 42, kernel |-> 42]

potential_mass_fraction ==
    [stalk |-> 25, mesocarp_fibers |-> 35, mesocarp_oil |-> 35, kernel |-> 5]

t_growth_start ==
    [stalk |-> 0, mesocarp_fibers |-> 165, mesocarp_oil |-> 180, kernel |-> 175]

t_growth_end ==
    [stalk |-> 150, mesocarp_fibers |-> 190, mesocarp_oil |-> 190, kernel |-> 195]

specific_maintenance == 22

\* make_quadratic_function without the window: the height of the parabola
\* at every x
make_quadratic_function_unwindowed(x1, x2, A, x) ==
    (3 * A * TICKS) \div (2 * (x2 - x1))

\* the function returned by make_quadratic_function(x1, x2, A), applied to x;
\* x1 and x2 in ticks, x in days, A and the result in MU and MU/day
make_quadratic_function(x1, x2, A, x) ==
    LET W == x2 - x1
        h == (3 * A * TICKS) \div (2 * W)
        u == ((x * TICKS - x1) * ONE) \div W
    IN  IF x * TICKS <= x1 THEN 0
        ELSE IF x * TICKS >= x2 THEN 0
        ELSE Max(0, (4 * h * ((u * (ONE - u)) \div ONE)) \div ONE)

mass_growth_rate_potential(comp) ==
    make_quadratic_function(comp.t_maturity * t_growth_start[comp.kind],
                            comp.t_maturity * t_growth_end[comp.kind],
                            comp.potential_mass, comp.age)

get_potential_sink_strength(comp) ==
    (mass_growth_rate_potential(comp) * 100) \div conversion_efficiency[comp.kind]

\* BunchComponent.__init__ (potential_mass already resolved by the caller)
BunchComponent(kind, cohort, age, potential_mass, t_maturity) ==
    LET c0 == [kind |-> kind, cohort |-> cohort, potential_mass |-> potential_mass,
               t_maturity |-> t_maturity, mass |-> 0, age |-> age,
               potential_sink_strength |-> 0]
    IN  [c0 EXCEPT !.potential_sink_strength = get_potential_sink_strength(c0)]

get_potential_mass(kind, total) == (potential_mass_fraction[kind] * total) \div 100

\* copy handing back the object it was asked to copy
BunchComponent_copy_same_object(h, nid, id) ==
    [heap |-> h, nextId |-> nid, ref |-> id]

\* BunchComponent.copy: a new object of the same type carrying mass and age,
\* not yet owned by a cohort; h is the object store, nid the next free id
BunchComponent_copy(h, nid, id) ==
    LET comp == h[id]
        duplicate == BunchComponent(comp.kind, None, 0, comp.potential_mass,
                                    comp.t_maturity)
        d1 == [duplicate EXCEPT !.mass = comp.mass, !.age = comp.age]
        d2 == [d1 EXCEPT !.potential_sink_strength = get_potential_sink_strength(d1)]
    IN  [heap |-> (nid :> d2) @@ h, nextId |-> nid + 1, ref |-> nid]

BunchComponent_maintenance_requirement(comp) ==
    (specific_maintenance * comp.mass) \div ONE

(***************************************************************************)
(* cohorts_container.py: the quantities the cohorts read from the          *)
(* container.  g is the container's stored state, t the palm's date.       *)
(***************************************************************************)
bunch_development_asymptote_t0 == 1500

bunch_development_slope == 27

onset_time == 28

\* Cohorts.t_maturity, in whole days
Cohorts_t_maturity(DAP, t) ==
    LET a0 == bunch_development_asymptote_t0
        s == bunch_development_slope
        diy == days_in_year(t)
    IN  (a0 * (a0 * diy + 4 * s * DAP)) \div (2 * a0 * diy + 4 * s * DAP)

\* Ic with no growth reported when nothing is demanded
Ic_zero_without_demand(g) ==
    LET res == IF g.potential_sink_strength = 0 THEN 0
               ELSE (g.assim_growth * ONE) \div g.potential_sink_strength
    IN  Min(ONE, res)

Ic(g) ==
    LET res == IF g.potential_sink_strength = 0 THEN ONE
               ELSE (g.assim_growth * ONE) \div g.potential_sink_strength
    IN  Min(ONE, res)

stress_index(g) == ONE - Ic(g)

female_fraction_baseline(DAP, t) ==
    LET diy == days_in_year(t)
        boundary == (1580 * (ONE + 2 * ExpNeg((2200 * DAP) \div diy))) \div ONE
        leaf_initiation == (2128 * (ONE + (156 * ExpNeg((2400 * DAP) \div diy)) \div 100)) \div ONE
    IN  (boundary * ONE) \div leaf_initiation

calc_female_fraction_decrease(x) == ExpNeg((6 * x) \div 10)

female_fraction(g, DAP, t) ==
    (female_fraction_baseline(DAP, t) * calc_female_fraction_decrease(stress_index(g))) \div ONE

\* Fronds.initiation_rate times the planting density, in 1/100 frond per
\* hectare and day (Fronds.count_growth_rate)
initiation_rate_yearly(DAP, t) ==
    Min(5000, (2128 * (ONE + (156 * ExpNeg((2400 * DAP) \div days_in_year(t))) \div 100)) \div ONE)

count_growth_rate(DAP, t) ==
    (initiation_rate_yearly(DAP, t) * planting_density) \div days_in_year(t)

\* (MAP - t0) ** 2 in 1/100, of (MAP - t0) in 1/100 month, held below the
\* point where the factor is 1 to four decimals
onset_square(d) == Min(40000, (d * d) \div 100)

\* 1 - 1 / (1 + steepness * (MAP - t0) ** 4)
onset_saturation(d2) == ONE - (100 * ONE) \div (100 + (d2 * d2) \div 1000)

\* Cohorts.calc_onset_multiplicity with steepness = onset_steepness = 0.1;
\* since_t0 is (MAP - t0) * days_in_month in days, with
\* t0 = onset_time - t_maturity / days_in_month
calc_onset_multiplicity(since_t0, dim) ==
    IF since_t0 < 0 THEN 0
    ELSE onset_saturation(onset_square((since_t0 * 100) \div dim))

onset_multiplicity_factor(DAP, t) ==
    calc_onset_multiplicity((MAP(t) - onset_time) * days_in_month(t) + Cohorts_t_maturity(DAP, t),
                            days_in_month(t))

\* Cohorts.initiation_rate, in 1/100 inflorescence per hectare and day
initiation_rate(DAP, t) ==
    (count_growth_rate(DAP, t) * onset_multiplicity_factor(DAP, t)) \div ONE

(***************************************************************************)
(* cohorts.py.  A cohort is a record; its components are references into   *)
(* the object store h.  cs is the container's list of cohorts.             *)
(***************************************************************************)
Indeterminate_t_differentiation == 40

Female_t_anthesis == 164

inflorescence_abortion_t0 == 150

inflorescence_abortion_dt == 6

bunch_failure_t0 == 184

bunch_failure_dt == 6

Cohort_potential_sink_strength(h, c) ==
    SumSeq([i \in 1..Len(c.components) |-> h[c.components[i]].potential_sink_strength])

\* kg_CH2O per cohort and day, in g
cohort_sink_strength(h, c) ==
    (c.num_inflorescences * Cohort_potential_sink_strength(h, c)) \div ONE

get_relative_sink_strength(h, c, g) ==
    LET total_sink_strength == g.potential_sink_strength
    IN  IF total_sink_strength = 0 THEN 0
        ELSE (cohort_sink_strength(h, c) * ONE) \div total_sink_strength

assim_growth_cohort(c, g) == (c.relative_sink_strength * g.assim_growth) \div ONE

assim_growth_organ(c, g) ==
    IF c.num_inflorescences > 0
    THEN (assim_growth_cohort(c, g) * ONE) \div c.num_inflorescences
    ELSE 0

Cohort_maintenance_requirement(h, c) ==
    SumSeq([i \in 1..Len(c.components) |->
               BunchComponent_maintenance_requirement(h[c.components[i]])])

\* the cohort a component refers to through _cohort
OwnerOf(cs, comp) == cs[CHOOSE i \in 1..Len(cs) : cs[i].id = comp.cohort]

BunchComponent_relative_sink_strength(h, cs, comp) ==
    IF comp.cohort = None THEN ONE
    ELSE LET total == Cohort_potential_sink_strength(h, OwnerOf(cs, comp))
         IN  IF total > 0 THEN (comp.potential_sink_strength * ONE) \div total
             ELSE 0

BunchComponent_assim_growth(h, cs, g, comp) ==
    IF comp.cohort = None THEN 0
    ELSE (BunchComponent_relative_sink_strength(h, cs, comp)
            * assim_growth_organ(OwnerOf(cs, comp), g)) \div ONE

mass_growth_rate(h, cs, g, comp) ==
    LET res == (conversion_efficiency[comp.kind] * BunchComponent_assim_growth(h, cs, g, comp)) \div 100
        cap == mass_growth_rate_potential(comp)
    IN  Min(cap, res)

update_mass(h, cs, g, id, dt) ==
    [h EXCEPT ![id].mass = @ + mass_growth_rate(h, cs, g, h[id]) * dt]

update_age(h, id, dt) ==
    LET aged == [h[id] EXCEPT !.age = @ + dt]
    IN  [h EXCEPT ![id] = [aged EXCEPT !.potential_sink_strength =
                                           get_potential_sink_strength(aged)]]

\* 1 - exp(-a * x) with a = stress_*_asymptote = 0.95; the two assertions
\* 0 <= res < 1 of the code hold for every stress index in [0, 1]
stress_abortion_fraction(x) == ONE - ExpNeg((95 * x) \div 100)

inflorescence_abortion_fraction(c, g) ==
    LET t0 == c.t_maturity * inflorescence_abortion_t0
        t1 == t0 + c.t_maturity * inflorescence_abortion_dt
    IN  IF (c.age * TICKS >= t0) /\ (c.age * TICKS < t1)
        THEN stress_abortion_fraction(stress_index(g)) ELSE 0

bunch_failure_fraction(c, g) ==
    LET t0 == c.t_maturity * bunch_failure_t0
        t1 == t0 + c.t_maturity * bunch_failure_dt
    IN  IF (c.age * TICKS >= t0) /\ (c.age * TICKS < t1)
        THEN stress_abortion_fraction(stress_index(g)) ELSE 0

abortion_fraction(c, g) ==
    IF c.sex = "female"
    THEN inflorescence_abortion_fraction(c, g) + bunch_failure_fraction(c, g)
    ELSE 0

\* the two loops of Cohort._update over self.components
RECURSIVE update_mass_all(_, _, _, _, _)
update_mass_all(h, cs, g, ids, dt) ==
    IF ids = <<>> THEN h
    ELSE update_mass_all(update_mass(h, cs, g, Head(ids), dt), cs, g, Tail(ids), dt)

RECURSIVE update_age_all(_, _, _)
update_age_all(h, ids, dt) ==
    IF ids = <<>> THEN h
    ELSE update_age_all(update_age(h, Head(ids), dt), Tail(ids), dt)

\* Cohort._update without the max(0, .) around the survival fraction
Cohort_update_unclamped(st, i, g, dt) ==
    LET c == st.cohorts[i]
        h1 == update_mass_all(st.heap, st.cohorts, g, c.components, dt)
        h2 == update_age_all(h1, c.components, dt)
        survival_fraction == ONE - abortion_fraction(c, g) * dt
        c1 == [c EXCEPT !.num_inflorescences = (@ \div ONE) * survival_fraction
                                                  + ((@ % ONE) * survival_fraction) \div ONE,
                        !.age = @ + dt]
    IN  [st EXCEPT !.cohorts[i] = c1, !.heap = h2]

\* Cohort._update advancing the ages before the masses
Cohort_update_age_first(st, i, g, dt) ==
    LET c == st.cohorts[i]
        h1 == update_age_all(st.heap, c.components, dt)
        h2 == update_mass_all(h1, st.cohorts, g, c.components, dt)
        survival_fraction == Max(0, ONE - abortion_fraction(c, g) * dt)
        c1 == [c EXCEPT !.num_inflorescences = (@ * survival_fraction) \div ONE,
                        !.age = @ + dt]
    IN  [st EXCEPT !.cohorts[i] = c1, !.heap = h2]

\* Cohort._update on the i-th cohort of st.cohorts
Cohort_update(st, i, g, dt) ==
    LET c == st.cohorts[i]
        h1 == update_mass_all(st.heap, st.cohorts, g, c.components, dt)
        h2 == update_age_all(h1, c.components, dt)
        survival_fraction == Max(0, ONE - abortion_fraction(c, g) * dt)
        c1 == [c EXCEPT !.num_inflorescences = (@ * survival_fraction) \div ONE,
                        !.age = @ + dt]
    IN  [st EXCEPT !.cohorts[i] = c1, !.heap = h2]

\* should_trigger_flowering without the has_flowered guard
should_trigger_flowering_unguarded(c) ==
    c.age * TICKS > c.t_maturity * Female_t_anthesis

should_trigger_flowering(c) ==
    (c.age * TICKS > c.t_maturity * Female_t_anthesis) /\ ~c.has_flowered

\* set_fruit starting the new components at age 0
set_fruit_at_age_zero(st, i) ==
    LET c == st.cohorts[i]
        n == st.nextId
        new(kind) == BunchComponent(kind, c.id, 0,
                                    get_potential_mass(kind, c.potential_mass),
                                    c.t_maturity)
        h1 == (n :> new("mesocarp_oil")) @@ (n + 1 :> new("mesocarp_fibers"))
                 @@ (n + 2 :> new("kernel")) @@ st.heap
        c1 == [c EXCEPT !.mesocarp_oil = n, !.mesocarp_fibers = n + 1, !.kernel = n + 2,
                        !.components = <<c.stalk, n + 1, n, n + 2>>,
                        !.has_flowered = TRUE]
    IN  [st EXCEPT !.cohorts[i] = c1, !.heap = h1, !.nextId = n + 3]

\* Female.set_fruit on the i-th cohort
set_fruit(st, i) ==
    LET c == st.cohorts[i]
        n == st.nextId
        new(kind) == BunchComponent(kind, c.id, c.age,
                                    get_potential_mass(kind, c.potential_mass),
                                    c.t_maturity)
        h1 == (n :> new("mesocarp_oil")) @@ (n + 1 :> new("mesocarp_fibers"))
                 @@ (n + 2 :> new("kernel")) @@ st.heap
        c1 == [c EXCEPT !.mesocarp_oil = n, !.mesocarp_fibers = n + 1, !.kernel = n + 2,
                        !.components = <<c.stalk, n + 1, n, n + 2>>,
                        !.has_flowered = TRUE]
    IN  [st EXCEPT !.cohorts[i] = c1, !.heap = h1, !.nextId = n + 3]

\* Female.update after _update: the flowering trigger
trigger_flowering(s1, i) ==
    IF s1.cohorts[i].sex = "female" /\ should_trigger_flowering(s1.cohorts[i])
    THEN set_fruit(s1, i) ELSE s1

\* Cohort.update / Female.update
update_cohort(st, i, g, dt) == trigger_flowering(Cohort_update(st, i, g, dt), i)

\* Indeterminate.potential_mass, in MU
Indeterminate_potential_mass(DAP, t) ==
    LET T == Cohorts_t_maturity(DAP, t)
        x == ((DAP * TICKS + T * (TICKS - Indeterminate_t_differentiation)) * 5)
                \div days_in_year(t)
        res_FM == 310 * (ONE - ExpNeg(x))
    IN  (res_FM * 10) \div 19

NoCohort ==
    [id |-> None, sex |-> "none", age |-> 0, num_inflorescences |-> 0,
     relative_sink_strength |-> 0, t_maturity |-> 0, t_differentiation |-> 0,
     potential_mass |-> 0, has_flowered |-> FALSE, stalk |-> None,
     mesocarp_fibers |-> None, mesocarp_oil |-> None, kernel |-> None,
     components |-> <<>>]

\* Indeterminate.__init__: the cohort gets id n, its stalk id n + 1
Indeterminate(st, DAP, t) ==
    [cohort |-> [NoCohort EXCEPT !.id = st.nextId, !.sex = "indeterminate",
                                 !.num_inflorescences = 100,
                                 !.stalk = st.nextId + 1, !.components = <<st.nextId + 1>>,
                                 !.t_differentiation =
                                     Cohorts_t_maturity(DAP, t) * Indeterminate_t_differentiation],
     heap |-> (st.nextId + 1 :>
                  BunchComponent("stalk", st.nextId, 0,
                                 get_potential_mass("stalk", Indeterminate_potential_mass(DAP, t)),
                                 default_t_maturity)) @@ st.heap,
     nextId |-> st.nextId + 2]

should_differentiate(c) == c.age * TICKS >= c.t_differentiation

\* the Female or Male made of cohort c: it gets id n, the share f of the
\* inflorescences and of the sink strength, and adopts the copy cp of the
\* stalk through stalk._cohort
differentiated(n, sex, c, f, potential_mass, t_maturity, cp) ==
    [cohort |-> [NoCohort EXCEPT !.id = n, !.sex = sex,
                                 !.potential_mass = potential_mass,
                                 !.t_maturity = t_maturity,
                                 !.stalk = cp.ref, !.components = <<cp.ref>>,
                                 !.age = c.age,
                                 !.num_inflorescences = (f * c.num_inflorescences) \div ONE,
                                 !.relative_sink_strength = (f * c.relative_sink_strength) \div ONE],
     heap |-> [cp.heap EXCEPT ![cp.ref].cohort = n],
     nextId |-> cp.nextId]

\* Indeterminate.to_female.  The new cohort gets id st.nextId.  (The Stalk
\* that the Female constructor builds first is dropped at once and never
\* referenced.)
to_female(st, c, g, DAP, t) ==
    differentiated(st.nextId, "female", c, female_fraction(g, DAP, t),
                   Indeterminate_potential_mass(DAP, t), Cohorts_t_maturity(DAP, t),
                   BunchComponent_copy(st.heap, st.nextId + 1, c.stalk))

\* to_male handing the male child the female share
to_male_female_share(st, c, g, DAP, t) ==
    differentiated(st.nextId, "male", c, female_fraction(g, DAP, t),
                   Indeterminate_potential_mass(DAP, t), Cohorts_t_maturity(DAP, t),
                   BunchComponent_copy(st.heap, st.nextId + 1, c.stalk))

\* Indeterminate.to_male
to_male(st, c, g, DAP, t) ==
    differentiated(st.nextId, "male", c, ONE - female_fraction(g, DAP, t),
                   Indeterminate_potential_mass(DAP, t), Cohorts_t_maturity(DAP, t),
                   BunchComponent_copy(st.heap, st.nextId + 1, c.stalk))

is_harvestible(c) == c.sex = "female" /\ c.age >= c.t_maturity

\* is_deletable that also holds for a cohort without inflorescences
is_deletable_or_empty(c) ==
    IF c.sex = "indeterminate" THEN c.age * TICKS > c.t_differentiation
    ELSE IF c.num_inflorescences = 0 THEN TRUE
    ELSE IF c.sex = "female" THEN c.age >= c.t_maturity
    ELSE c.age > c.t_maturity

is_deletable(c) ==
    IF c.sex = "indeterminate" THEN c.age * TICKS > c.t_differentiation
    ELSE IF c.sex = "female" THEN c.age >= c.t_maturity
    ELSE c.age > c.t_maturity

(***************************************************************************)
(* cohorts_container.py: Cohorts.update and its parts.  st carries the     *)
(* list of cohorts, the object store and the next free object id.          *)
(***************************************************************************)
RECURSIVE update_existing_cohorts(_, _, _, _)
update_existing_cohorts(st, i, g, dt) ==
    IF i > Len(st.cohorts) THEN st
    ELSE update_existing_cohorts(update_cohort(st, i, g, dt), i + 1, g, dt)

\* cohorts_.append(f) alone
append_female_only(acc, cohort, f, m) ==
    [cohorts |-> Append(acc.cohorts, f.cohort),
     heap |-> m.heap, nextId |-> m.nextId,
     splits |-> Append(acc.splits,
                       [parent |-> cohort, stalk |-> acc.heap[cohort.stalk],
                        female |-> f.cohort, male |-> m.cohort,
                        female_stalk |-> m.heap[f.cohort.stalk],
                        male_stalk |-> m.heap[m.cohort.stalk]])]

\* cohorts_.append(f); cohorts_.append(m), f and m being what to_female and
\* to_male returned; acc.splits remembers what each split was made from
append_children(acc, cohort, f, m) ==
    [cohorts |-> acc.cohorts \o <<f.cohort, m.cohort>>,
     heap |-> m.heap, nextId |-> m.nextId,
     splits |-> Append(acc.splits,
                       [parent |-> cohort, stalk |-> acc.heap[cohort.stalk],
                        female |-> f.cohort, male |-> m.cohort,
                        female_stalk |-> m.heap[f.cohort.stalk],
                        male_stalk |-> m.heap[m.cohort.stalk]])]

\* m = cohort.to_male(), called after f = cohort.to_female()
split_male(acc, cohort, f, g, DAP, t) ==
    append_children(acc, cohort, f,
                    to_male([acc EXCEPT !.heap = f.heap, !.nextId = f.nextId],
                            cohort, g, DAP, t))

\* the loop of update_sex from cohort i on; acc.cohorts is cohorts_
RECURSIVE update_sex_loop(_, _, _, _, _, _)
update_sex_loop(cs, i, acc, g, DAP, t) ==
    IF i > Len(cs) THEN acc
    ELSE IF cs[i].sex = "indeterminate" /\ cs[i].age * TICKS > cs[i].t_differentiation
    THEN update_sex_loop(cs, i + 1,
                         split_male(acc, cs[i], to_female(acc, cs[i], g, DAP, t), g, DAP, t),
                         g, DAP, t)
    ELSE update_sex_loop(cs, i + 1, [acc EXCEPT !.cohorts = Append(@, cs[i])], g, DAP, t)

update_sex(st, g, DAP, t) ==
    update_sex_loop(st.cohorts, 1,
                    [cohorts |-> <<>>, heap |-> st.heap, nextId |-> st.nextId,
                     splits |-> <<>>],
                    g, DAP, t)

\* self.cohorts.append(new_cohort), new being the Indeterminate just built
append_new_cohort(st, new, num_inflorescences) ==
    [st EXCEPT !.cohorts = Append(@, [new.cohort EXCEPT
                                         !.num_inflorescences = num_inflorescences]),
               !.heap = new.heap,
               !.nextId = new.nextId]

\* update_new_cohorts with the daily rate taken for the step's number
update_new_cohorts_daily(st, DAP, t, dt) ==
    append_new_cohort(st, Indeterminate(st, DAP, t), initiation_rate(DAP, t))

update_new_cohorts(st, DAP, t, dt) ==
    append_new_cohort(st, Indeterminate(st, DAP, t), initiation_rate(DAP, t) * dt)

\* get_potential_sink_strength adding up the per-inflorescence strengths
Cohorts_get_potential_sink_strength_per_organ(h, cs) ==
    SumSeq([i \in 1..Len(cs) |-> Cohort_potential_sink_strength(h, cs[i])])

Cohorts_get_potential_sink_strength(h, cs) ==
    SumSeq([i \in 1..Len(cs) |-> cohort_sink_strength(h, cs[i])])

set_relative_sink_strengths(h, cs, g) ==
    [i \in 1..Len(cs) |->
        [cs[i] EXCEPT !.relative_sink_strength = get_relative_sink_strength(h, cs[i], g)]]

Cohorts_maintenance_requirement(h, cs) ==
    SumSeq([i \in 1..Len(cs) |->
               (Cohort_maintenance_requirement(h, cs[i]) * cs[i].num_inflorescences) \div ONE])

\* the objects still referenced once the update is over
Reachable(cs, bunches) ==
    UNION {{cs[i].components[j] : j \in 1..Len(cs[i].components)} : i \in 1..Len(cs)}
      \cup UNION {{bunches[i].components[j] : j \in 1..Len(bunches[i].components)} :
                     i \in 1..Len(bunches)}

\* the end of Cohorts.update: the potential sink strength of the cohorts
\* kept, then their relative sink strengths
Cohorts_update_after_removal(gen, g, s1, s2, s3, harvest, bunches, kept, potential_sink_strength) ==
    [generative |-> [assim_growth |-> g.assim_growth,
                     potential_sink_strength |-> potential_sink_strength,
                     cohorts |-> set_relative_sink_strengths(
                                     s3.heap, kept,
                                     [g EXCEPT !.potential_sink_strength = potential_sink_strength]),
                     bunches |-> bunches],
     heap |-> [id \in Reachable(kept, bunches) |-> s3.heap[id]],
     nextId |-> s3.nextId,
     splits |-> s2.splits,
     harvest |-> harvest,
     grown |-> s1]

\* Cohorts.update recording every harvestible Female in _bunches
Cohorts_update_recording_all(gen, g, s1, s2, s3, harvest, kept) ==
    Cohorts_update_after_removal(gen, g, s1, s2, s3, harvest,
                             IF harvest # <<>> THEN harvest ELSE gen.bunches,
                             kept,
                             Cohorts_get_potential_sink_strength(s3.heap, kept))

\* Cohorts.update once the harvest and the cohorts kept are known: the
\* harvest recorded in _bunches; s1, s2 and s3 are the population after
\* update_existing_cohorts, update_sex and update_new_cohorts
Cohorts_update_after_harvest(gen, g, s1, s2, s3, harvest, kept) ==
    Cohorts_update_after_removal(gen, g, s1, s2, s3, harvest,
                             IF harvest # <<>> THEN <<harvest[1]>> ELSE gen.bunches,
                             kept,
                             Cohorts_get_potential_sink_strength(s3.heap, kept))

\* Cohorts.update after update_new_cohorts: the harvest and the removal
Cohorts_update_after_new(gen, g, s1, s2, s3) ==
    Cohorts_update_after_harvest(gen, g, s1, s2, s3,
                           SelectSeq(s3.cohorts, is_harvestible),
                           SelectSeq(s3.cohorts, LAMBDA x : ~is_deletable(x)))

\* Cohorts.update after update_sex
Cohorts_update_after_sex(gen, g, s1, s2, DAP, t, dt) ==
    Cohorts_update_after_new(gen, g, s1, s2,
                       update_new_cohorts([cohorts |-> s2.cohorts, heap |-> s2.heap,
                                           nextId |-> s2.nextId], DAP, t, dt))

\* Cohorts.update after update_existing_cohorts
Cohorts_update_after_existing(gen, g, s1, DAP, t, dt) ==
    Cohorts_update_after_sex(gen, g, s1, update_sex(s1, g, DAP, t), DAP, t, dt)

\* Cohorts.update, g being what the cohorts read of the container during it
Cohorts_update_reading(gen, heap0, nextId0, g, DAP, t, dt) ==
    Cohorts_update_after_existing(gen, g,
                            update_existing_cohorts([cohorts |-> gen.cohorts, heap |-> heap0,
                                                     nextId |-> nextId0], 1, g, dt),
                            DAP, t, dt)

\* Cohorts.update; gen is the container, assim_growth_generative the value
\* read from the Assimilates snapshot
Cohorts_update(gen, heap0, nextId0, assim_growth_generative, DAP, t, dt) ==
    Cohorts_update_reading(gen, heap0, nextId0,
                           [assim_growth |-> assim_growth_generative,
                            potential_sink_strength |-> gen.potential_sink_strength],
                           DAP, t, dt)

(***************************************************************************)
(* fronds.py, trunk.py, roots.py.  Masses and fluxes per hectare in g,     *)
(* frond counts in 1/100 frond.                                            *)
(***************************************************************************)
\* the spline through the control points, taken piecewise linear;
\* pts is a sequence of <<YAP, g per palm and year>>
RECURSIVE Spline_calc(_, _)
Spline_calc(pts, x) ==
    IF Len(pts) = 1 THEN pts[1][2]
    ELSE IF x <= pts[1][1] THEN pts[1][2]
    ELSE IF x <= pts[2][1]
         THEN pts[1][2] + ((pts[2][2] - pts[1][2]) * (x - pts[1][1])) \div (pts[2][1] - pts[1][1])
    ELSE Spline_calc(Tail(pts), x)

Trunk_potential_growth_rates ==
    <<(<<0, 1600>>), (<<3, 9500>>), (<<6, 19600>>), (<<9, 22800>>), (<<12, 19200>>),
      (<<15, 13500>>), (<<18, 8600>>), (<<21, 5200>>), (<<24, 3000>>), (<<27, 1700>>)>>

Roots_potential_growth_rates ==
    <<(<<0, 3500>>), (<<3, 5700>>), (<<6, 5100>>), (<<9, 3400>>), (<<12, 1900>>),
      (<<15, 1000>>), (<<18, 500>>), (<<21, 300>>), (<<24, 100>>), (<<27, 100>>)>>

Fronds_potential_growth_rate(t) == (12 * 4000 * planting_density) \div days_in_year(t)

Fronds_potential_sink_strength(t) == (Fronds_potential_growth_rate(t) * 100) \div 73

Fronds_maintenance_requirement(fr) ==
    (18 * ((75 * fr.mass) \div 100)) \div ONE + (83 * ((25 * fr.mass) \div 100)) \div ONE

\* 0.01 ** t_relative = exp(-ln(100) * t_relative), ln(100) = 4.6052
fronds_goal_count(DAP, t) ==
    LET t_relative == (46052 * DAP) \div (days_in_year(t) * 15)
    IN  planting_density * ((1200 * ExpNeg(t_relative)) \div ONE + 4000)

\* prune_rate over the 10 days of its signature instead of the palm's dt
prune_rate_ten_days(fr, DAP, t, timespan) ==
    LET available == fr.count + count_growth_rate(DAP, t) * 10
        target == fronds_goal_count(DAP, t)
        target_change == Max(0, available - target)
    IN  target_change \div 10

prune_rate(fr, DAP, t, timespan) ==
    LET available == fr.count + count_growth_rate(DAP, t) * timespan
        target == fronds_goal_count(DAP, t)
        target_change == Max(0, available - target)
    IN  target_change \div timespan

\* prune_rate / count raises ZeroDivisionError when there is no frond
prune_rate_mass_raises(fr) == fr.count = 0

prune_rate_mass(fr, DAP, t, timespan) ==
    MulDiv(fr.mass, prune_rate(fr, DAP, t, timespan), fr.count)

Trunk_potential_growth_rate(t) ==
    Max(0, (planting_density * Spline_calc(Trunk_potential_growth_rates, YAP(t)))
              \div days_in_year(t))

Trunk_potential_sink_strength(t) == (Trunk_potential_growth_rate(t) * 100) \div 69

Trunk_maintenance_requirement(tr) == (5 * (tr.mass - tr.lignified_mass)) \div ONE

Trunk_density(t) == 762 * YAP(t) + 8300

\* volume * (c / days_in_month) with volume = mass / density
lignified_mass_change_rate(tr, t) ==
    (tr.mass * 74) \div (Trunk_density(t) * days_in_month(t))

Roots_mass_loss_rate(ro) == MulDiv(ro.mass, 582, 1000000)

Roots_potential_growth_rate(ro, t) ==
    (planting_density * Spline_calc(Roots_potential_growth_rates, YAP(t)))
        \div days_in_year(t) + Roots_mass_loss_rate(ro)

Roots_potential_sink_strength(ro, t) == (Roots_potential_growth_rate(ro, t) * 100) \div 69

Roots_maintenance_requirement(ro) == (22 * ro.mass) \div ONE

(***************************************************************************)
(* weather.py and fronds.py: the light on the canopy, as far as the        *)
(* divisions of calc_gross_assimilation need it.  Fractions in 1/ONE,      *)
(* intensities in 1/100 J/m2/s, the daily radiation in MJ/m2/day.  The sun *)
(* is taken on the equator at the equinox (daylength 12 h, amplitude of    *)
(* the sine of the solar height 1, eccentricity factor 1), the canopy at   *)
(* the first point the two Gaussian sums evaluate: the hour 6 + 0.047 * 12 *)
(* and the top layer, where the factors exp(-K * L) are 1.                 *)
(***************************************************************************)
PAR_fraction == 5000

\* Weather.transmission_factor: I / Iext, with
\* radiation_extraterrestrial_daily = 3600e-6 * 1367 * 24 / pi = 38 MJ/m2/day
transmission_factor(radiation) == (radiation * ONE) \div 38

\* Weather.fraction_diffuse, f being the transmission factor
fraction_diffuse(f) ==
    IF f < 700 THEN ONE
    ELSE IF f < 3500 THEN ONE - (23 * (f - 700) * (f - 700)) \div (10 * ONE)
    ELSE IF f < 7500 THEN 13300 - (146 * f) \div 100
    ELSE 2300

\* Weather.calc_fraction_diffuse(hour = 12), the lower limit being
\* 0.15 + 0.85 * (1 - exp(-0.1 / sinb)) at sinb = 1
calc_fraction_diffuse(f) ==
    Max(fraction_diffuse(f), 1500 + (8500 * (ONE - ExpNeg(1000))) \div ONE)

\* Weather.calc_PAR: c * T * I0, with I0 = 1367 * sinb = 201 J/m2/s at the
\* first hour (sinb = cos(2 pi (6.564 - 12) / 24) = 0.147)
calc_PAR(radiation) ==
    (((PAR_fraction * transmission_factor(radiation)) \div ONE) * 20100) \div ONE

\* VISSHD = VISDF + (VIST - VISD) of calc_gross_assimilation: the light the
\* shaded leaves absorb, PARDF = I * fDF and PARDR = I * (1 - fDF) being the
\* diffuse and the direct light.  With SCP = 0.2, KDF = 0.33 and
\* sinb = 0.147: (1 - REFH) * KDF = 0.3116, (1 - REFS) * KDRT = 1.2822 and
\* (1 - SCP) * KBL = 1.2549
VISSHD(I, fDF) ==
    (3116 * ((I * fDF) \div ONE)) \div ONE
        + ((12822 * ((I * (ONE - fDF)) \div ONE)) \div ONE
             - (12549 * ((I * (ONE - fDF)) \div ONE)) \div ONE)

\* LUESHD = ASHD / VISSHD in calc_gross_assimilation raises
\* ZeroDivisionError when the shaded leaves absorb no light
calc_gross_assimilation_raises(radiation) ==
    VISSHD(calc_PAR(radiation),
           calc_fraction_diffuse(transmission_factor(radiation))) = 0

(***************************************************************************)
(* assimilates.py: the snapshot taken by Assimilates.set_attributes, in    *)
(* the order of its assignments.  p is the palm: its organs, its date t,   *)
(* the radiation of the day and the gross assimilation the fronds report   *)
(* under the weather when there is light.                                  *)
(***************************************************************************)
get_potential_sink_strength_vegetative(p) ==
    Fronds_potential_sink_strength(p.t) + Trunk_potential_sink_strength(p.t)
        + Roots_potential_sink_strength(p.roots, p.t)

\* get_assim_growth_total without the clamp at 0
get_assim_growth_total_unclamped(a) == a.assim_produced - a.assim_maintenance_total

get_assim_growth_total(a) ==
    LET assim_growth_total == a.assim_produced - a.assim_maintenance_total
    IN  IF assim_growth_total >= 0 THEN assim_growth_total ELSE 0

partition_Ds(a, p) ==
    <<a.potential_sink_strength_vegetative, p.generative.potential_sink_strength>>

get_assim_growth_vegetative(a, p) ==
    LET res == parametrized_partitioning(a.assim_growth_total, partition_Ds(a, p),
                                         vegetative_priority)[1]
    IN  IF res <= 0 THEN 0 ELSE res

\* get_assim_growth_generative handing on the share as partitioned, without
\* min(res, potential)
get_assim_growth_generative_uncut(a, p) ==
    parametrized_partitioning(a.assim_growth_total, partition_Ds(a, p),
                              vegetative_priority)[2]

get_assim_growth_generative(a, p) ==
    LET res == parametrized_partitioning(a.assim_growth_total, partition_Ds(a, p),
                                         vegetative_priority)[2]
    IN  Min(res, p.generative.potential_sink_strength)

\* the attributes assigned before the first call of parametrized_partitioning,
\* the four requirements and the vegetative demand being at hand
set_attributes_totals(a, p, demand, fronds_, trunk_, roots_, generative_) ==
    [a EXCEPT !.potential_sink_strength_vegetative = demand,
              !.assim_produced = p.assim_produced,
              !.assim_maintenance_fronds = fronds_,
              !.assim_maintenance_trunk = trunk_,
              !.assim_maintenance_roots = roots_,
              !.assim_maintenance_vegetative = roots_ + trunk_ + fronds_,
              !.assim_maintenance_generative = generative_,
              !.assim_maintenance_total = roots_ + trunk_ + fronds_ + generative_,
              !.assim_growth_total =
                  get_assim_growth_total([assim_produced |-> p.assim_produced,
                                          assim_maintenance_total |->
                                              roots_ + trunk_ + fronds_ + generative_])]

set_attributes_head(a, p) ==
    set_attributes_totals(a, p,
                          get_potential_sink_strength_vegetative(p),
                          Fronds_maintenance_requirement(p.fronds),
                          Trunk_maintenance_requirement(p.trunk),
                          Roots_maintenance_requirement(p.roots),
                          Cohorts_maintenance_requirement(p.heap, p.generative.cohorts))

\* the division by the total demand, or by the vegetative demand, that raises
\* ZeroDivisionError; a4 is the snapshot up to assim_growth_total
set_attributes_raises(a4, p) ==
    proportionate_raises(a4.assim_growth_total, partition_Ds(a4, p))
      \/ a4.potential_sink_strength_vegetative = 0

\* the attributes from assim_growth_fronds on
set_attributes_shares(a5, p) ==
    [a5 EXCEPT !.assim_growth_fronds =
                   MulDiv(a5.assim_growth_vegetative, Fronds_potential_sink_strength(p.t),
                          a5.potential_sink_strength_vegetative),
               !.assim_growth_roots =
                   MulDiv(a5.assim_growth_vegetative,
                          Roots_potential_sink_strength(p.roots, p.t),
                          a5.potential_sink_strength_vegetative),
               !.assim_growth_trunk =
                   MulDiv(a5.assim_growth_vegetative, Trunk_potential_sink_strength(p.t),
                          a5.potential_sink_strength_vegetative),
               !.assim_growth_generative = get_assim_growth_generative(a5, p)]

\* the attributes from assim_growth_vegetative on
set_attributes_tail(a4, p) ==
    IF set_attributes_raises(a4, p) THEN [obj |-> a4, status |-> "ZeroDivisionError"]
    ELSE [obj |-> set_attributes_shares(
                      [a4 EXCEPT !.assim_growth_vegetative = get_assim_growth_vegetative(a4, p)],
                      p),
          status |-> "ok"]

\* Assimilates.set_attributes: the snapshot, or as much of it as was
\* assigned when a division raised.  get_assim_produced, the second
\* assignment, reads Fronds.assim_produced and with it calc_gross_assimilation.
set_attributes(a, p) ==
    IF calc_gross_assimilation_raises(p.radiation)
    THEN [obj |-> [a EXCEPT !.potential_sink_strength_vegetative =
                                get_potential_sink_strength_vegetative(p)],
          status |-> "ZeroDivisionError"]
    ELSE set_attributes_tail(set_attributes_head(a, p), p)

\* Assimilates before its first set_attributes
NoAssimilates ==
    [potential_sink_strength_vegetative |-> 0, assim_produced |-> 0,
     assim_maintenance_fronds |-> 0, assim_maintenance_trunk |-> 0,
     assim_maintenance_roots |-> 0, assim_maintenance_vegetative |-> 0,
     assim_maintenance_generative |-> 0, assim_maintenance_total |-> 0,
     assim_growth_total |-> 0, assim_growth_vegetative |-> 0,
     assim_growth_fronds |-> 0, assim_growth_roots |-> 0, assim_growth_trunk |-> 0,
     assim_growth_generative |-> 0]

\* Assimilates(palm = None): every getter that reads the palm returns 0, so
\* set_attributes arrives at get_assim_growth_vegetative with no supply and
\* the demands [0, 0]
set_attributes_without_palm(a) ==
    LET p == [assim_produced |-> 0, generative |-> [potential_sink_strength |-> 0]]
        a4 == set_attributes_totals(a, p, 0, 0, 0, 0, 0)
    IN  [S |-> a4.assim_growth_total, Ds |-> partition_Ds(a4, p),
         raised |-> proportionate_raises(a4.assim_growth_total, partition_Ds(a4, p))]

(***************************************************************************)
(* palm.py: PalmField.                                                     *)
(***************************************************************************)
\* the day of the year of date t, counted from 1
RECURSIVE DayOfYear(_)
DayOfYear(t) ==
    IF t.month = 1 THEN t.day
    ELSE monthrange(t.year, t.month - 1)
           + DayOfYear([t EXCEPT !.month = t.month - 1])

RECURSIVE DaysBeforeYear(_)
DaysBeforeYear(year) ==
    IF year <= year_of_planting THEN 0
    ELSE (IF isleap(year - 1) THEN 366 ELSE 365) + DaysBeforeYear(year - 1)

time_of_planting ==
    [year |-> year_of_planting, month |-> month_of_planting, day |-> day_of_planting]

\* (self.time - self.time_of_planting).days
DAP(t) == DaysBeforeYear(t.year) + DayOfYear(t) - DayOfYear(time_of_planting)

\* the values dt and the gross assimilation (g CH2O per hectare and day)
\* take in the model, and the settings of Trunk.mass_loss_rate (g/ha/day)
DtSet == {1, 31}

AssimProducedSet == {0, 10000, 120000}

\* the daily radiation of the site's weather data: none, or the 20 MJ/m2/day
\* that Weather.__init__ holds before any data are given
RadiationSet == {0, 20}

\* the weather of a run: its radiation, and the gross assimilation the
\* fronds report under it
WeatherSet ==
    {[radiation |-> r, assim_produced |-> a] : r \in RadiationSet, a \in AssimProducedSet}

MassLossRateSet == {0, 300}

\* the asserts of _update_mass and _update_count on the new mass and count
Fronds_update_asserts(fr, mass, count) ==
    IF prune_rate_mass_raises(fr) THEN [obj |-> fr, status |-> "ZeroDivisionError"]
    ELSE IF ~(mass >= 0)
         THEN [obj |-> [fr EXCEPT !.mass = mass], status |-> "AssertionError"]
    ELSE IF ~(count >= 0)
         THEN [obj |-> [fr EXCEPT !.mass = mass, !.count = count], status |-> "AssertionError"]
    ELSE [obj |-> [fr EXCEPT !.mass = mass, !.count = count], status |-> "ok"]

\* Fronds._update: _update_mass, then _update_count, each ending in its assert
Fronds_update(fr, a, D, t, dt) ==
    Fronds_update_asserts(fr,
        fr.mass + ((73 * a.assim_growth_fronds) \div 100 - prune_rate_mass(fr, D, t, dt)) * dt,
        fr.count + (count_growth_rate(D, t) - prune_rate(fr, D, t, dt)) * dt)

\* Trunk.update holding the mass at 0 instead of asserting
hold_Trunk(tr, lignified_mass, mass) ==
    IF ~(lignified_mass > 0)
    THEN [obj |-> [tr EXCEPT !.lignified_mass = lignified_mass, !.mass = Max(0, mass)],
          status |-> "AssertionError"]
    ELSE [obj |-> [tr EXCEPT !.lignified_mass = lignified_mass, !.mass = Max(0, mass)],
          status |-> "ok"]

\* the asserts of Trunk.update on the new masses
assert_Trunk(tr, lignified_mass, mass) ==
    IF ~(mass >= 0)
    THEN [obj |-> [tr EXCEPT !.lignified_mass = lignified_mass, !.mass = mass],
          status |-> "AssertionError"]
    ELSE IF ~(lignified_mass > 0)
    THEN [obj |-> [tr EXCEPT !.lignified_mass = lignified_mass, !.mass = mass],
          status |-> "AssertionError"]
    ELSE [obj |-> [tr EXCEPT !.lignified_mass = lignified_mass, !.mass = mass],
          status |-> "ok"]

\* Trunk.update
Trunk_update(tr, a, params, t, dt) ==
    assert_Trunk(tr,
                 tr.lignified_mass + lignified_mass_change_rate(tr, t) * dt,
                 tr.mass + ((69 * a.assim_growth_trunk) \div 100
                              - params.trunk_mass_loss_rate) * dt)

\* the assert of Roots.update on the new mass
assert_Roots(ro, mass) ==
    IF ~(mass >= 0) THEN [obj |-> [ro EXCEPT !.mass = mass], status |-> "AssertionError"]
    ELSE [obj |-> [ro EXCEPT !.mass = mass], status |-> "ok"]

\* Roots.update
Roots_update(ro, a, dt) ==
    assert_Roots(ro, ro.mass + ((69 * a.assim_growth_roots) \div 100
                                  - Roots_mass_loss_rate(ro)) * dt)

(***************************************************************************)
(* State.                                                                  *)
(*   time, dt             PalmField.time and PalmField.dt                   *)
(*   weather              the radiation of the site's weather data and the  *)
(*                        gross assimilation Fronds.assim_produced reports  *)
(*                        under the site's weather and soil                 *)
(*   parameters           the settings given to set_parameters              *)
(*   fronds, trunk, roots, assimilates, generative   the sub-models         *)
(*   heap, nextId         the bunch components, by object identity          *)
(*   status               "ok", or the exception that ended the last update *)
(*   steps, changes       how many updates and how many re-settings of dt   *)
(*                        have happened                                     *)
(*   hist                 what the last Cohorts.update started from and     *)
(*                        went through                                      *)
(*   part                 arguments and result of a partitioning call       *)
(***************************************************************************)
VARIABLES time, dt, weather, parameters, fronds, trunk, roots, assimilates,
          generative, heap, nextId, status, steps, changes, hist, part

vars == <<time, dt, weather, parameters, fronds, trunk, roots, assimilates,
          generative, heap, nextId, status, steps, changes, hist, part>>

palmVars == <<time, dt, weather, parameters, fronds, trunk, roots, assimilates,
              generative, heap, nextId, status, steps, changes, hist>>

NoHeap == [id \in {} |-> None]

NoHist ==
    [updated |-> FALSE, dt |-> 0, cohorts |-> <<>>, heap |-> NoHeap,
     g |-> [assim_growth |-> 0, potential_sink_strength |-> 0],
     grown |-> [cohorts |-> <<>>, heap |-> NoHeap, nextId |-> 1],
     splits |-> <<>>, harvest |-> <<>>]

NoPart == [fn |-> "none", S |-> 0, Ds |-> <<>>, k |-> 0, Ss |-> <<>>, raised |-> FALSE]

\* the palm as the sub-models see it in an update at date t
Palm(t) ==
    [t |-> t, fronds |-> fronds, trunk |-> trunk, roots |-> roots,
     generative |-> generative, heap |-> heap,
     radiation |-> weather.radiation, assim_produced |-> weather.assim_produced]

\* PalmField.__init__ with dt = d and Trunk.mass_loss_rate m; the weather
\* data w are given once the palm is built, its first snapshot of the
\* assimilates being taken under the radiation Weather.__init__ holds
PalmField(d, w, m) ==
    /\ time = time_of_planting
    /\ dt = d
    /\ weather = w
    /\ parameters = [trunk_mass_loss_rate |-> m]
    /\ fronds = [mass |-> planting_density * 100, count |-> planting_density * 1000]
    /\ roots = [mass |-> planting_density * 100]
    /\ trunk = [mass |-> planting_density * 100, lignified_mass |-> 0]
    /\ generative = [assim_growth |-> 0, potential_sink_strength |-> 0,
                     cohorts |-> <<>>, bunches |-> <<>>]
    /\ heap = NoHeap
    /\ nextId = 1
    /\ assimilates =
          set_attributes(NoAssimilates,
                         [t |-> time_of_planting,
                          fronds |-> [mass |-> planting_density * 100,
                                      count |-> planting_density * 1000],
                          trunk |-> [mass |-> planting_density * 100, lignified_mass |-> 0],
                          roots |-> [mass |-> planting_density * 100],
                          generative |-> [assim_growth |-> 0, potential_sink_strength |-> 0,
                                          cohorts |-> <<>>, bunches |-> <<>>],
                          heap |-> NoHeap, radiation |-> 20,
                          assim_produced |-> w.assim_produced]).obj
    /\ status = "ok"
    /\ steps = 0
    /\ changes = 0
    /\ hist = NoHist

Init ==
    /\ \E d \in DtSet, w \in WeatherSet, m \in MassLossRateSet : PalmField(d, w, m)
    /\ part = NoPart

\* how far _update got before an exception ended it: 1 assimilates,
\* 2 fronds, 3 trunk, 4 roots, 5 all of it
reached(a, fr, tr, ro) ==
    IF a.status # "ok" THEN 1
    ELSE IF fr.status # "ok" THEN 2
    ELSE IF tr.status # "ok" THEN 3
    ELSE IF ro.status # "ok" THEN 4 ELSE 5

\* the palm after _update: t the date reached, a, fr, tr and ro what the
\* updates of the assimilates and the organs returned, ge what
\* self.generative.update(dt) returned if the call got that far
PalmField_update_result(t, a, fr, tr, ro, ge) ==
    [time |-> t,
     assimilates |-> a.obj,
     fronds |-> IF reached(a, fr, tr, ro) >= 2 THEN fr.obj ELSE fronds,
     trunk |-> IF reached(a, fr, tr, ro) >= 3 THEN tr.obj ELSE trunk,
     roots |-> IF reached(a, fr, tr, ro) >= 4 THEN ro.obj ELSE roots,
     generative |-> ge.generative,
     heap |-> ge.heap,
     nextId |-> ge.nextId,
     status |-> IF reached(a, fr, tr, ro) = 1 THEN a.status
                ELSE IF reached(a, fr, tr, ro) = 2 THEN fr.status
                ELSE IF reached(a, fr, tr, ro) = 3 THEN tr.status
                ELSE IF reached(a, fr, tr, ro) = 4 THEN ro.status ELSE "ok",
     hist |-> IF reached(a, fr, tr, ro) = 5
              THEN [updated |-> TRUE, dt |-> dt, cohorts |-> generative.cohorts,
                    heap |-> heap,
                    g |-> [assim_growth |-> a.obj.assim_growth_generative,
                           potential_sink_strength |-> generative.potential_sink_strength],
                    grown |-> ge.grown, splits |-> ge.splits,
                    harvest |-> ge.harvest]
              ELSE hist]

\* self.generative.update(dt = dt), after the organs
PalmField_update_after_organs(t, D, a, fr, tr, ro) ==
    PalmField_update_result(t, a, fr, tr, ro,
        IF reached(a, fr, tr, ro) = 5
        THEN Cohorts_update(generative, heap, nextId, a.obj.assim_growth_generative, D, t, dt)
        ELSE [generative |-> generative, heap |-> heap, nextId |-> nextId,
              splits |-> <<>>, harvest |-> <<>>,
              grown |-> [cohorts |-> <<>>, heap |-> NoHeap, nextId |-> nextId]])

\* the organ updates with the trunk reading a snapshot taken anew after the
\* fronds were updated
PalmField_update_trunk_rereading(t, D, a) ==
    PalmField_update_after_organs(t, D, a,
                                Fronds_update(fronds, a.obj, D, t, dt),
                                Trunk_update(trunk,
                                             set_attributes(a.obj,
                                                 [Palm(t) EXCEPT !.fronds =
                                                     Fronds_update(fronds, a.obj, D, t, dt).obj]).obj,
                                             parameters, t, dt),
                                Roots_update(roots, a.obj, dt))

\* self.fronds.update(dt), self.trunk.update(dt), self.roots.update(dt),
\* each reading the snapshot a of the assimilates
PalmField_update_after_assimilates(t, D, a) ==
    PalmField_update_after_organs(t, D, a,
                                Fronds_update(fronds, a.obj, D, t, dt),
                                Trunk_update(trunk, a.obj, parameters, t, dt),
                                Roots_update(roots, a.obj, dt))

\* self.assimilates.update(), at the new date t
PalmField_update_at(t) ==
    PalmField_update_after_assimilates(t, DAP(t), set_attributes(assimilates, Palm(t)))

\* PalmField._update at the palm's dt: self.time += _dt, then the updates of
\* the sub-models in their order
PalmField_update == PalmField_update_at(AddDays(time, dt))

\* PalmField.update: the asserts on dt, then _update
Step ==
    /\ status = "ok"
    /\ steps < MaxSteps
    /\ DAP(time) + dt <= MaxDAP
    /\ dt >= 1 /\ dt <= 31
    /\ \E r \in {PalmField_update} :
          /\ time' = r.time
          /\ assimilates' = r.assimilates
          /\ fronds' = r.fronds
          /\ trunk' = r.trunk
          /\ roots' = r.roots
          /\ generative' = r.generative
          /\ heap' = r.heap
          /\ nextId' = r.nextId
          /\ status' = r.status
          /\ hist' = r.hist
    /\ steps' = steps + 1
    /\ UNCHANGED <<dt, weather, parameters, changes, part>>

\* palm.dt = d, between two updates
SetDt ==
    /\ status = "ok"
    /\ changes < MaxChanges
    /\ \E d \in DtSet \ {dt} : dt' = d
    /\ changes' = changes + 1
    /\ UNCHANGED <<time, weather, parameters, fronds, trunk, roots, assimilates,
                   generative, heap, nextId, status, steps, hist, part>>

Next == Step \/ SetDt

Spec == Init /\ [][Next]_vars

(***************************************************************************)
(* The partitioning functions on their own: a call with arguments drawn    *)
(* from bounded sets.  Supplies and demands are whole multiples of Grain,  *)
(* which every total demand and KDen divide, so that the divisions of      *)
(* proportionate_partitioning and the weighting by k are exact.            *)
(***************************************************************************)
Grain == KDen * LcmUpTo(MaxLen * MaxDemand)

RECURSIVE SeqsUpTo(_, _)
SeqsUpTo(S, n) ==
    IF n = 0 THEN {<<>>}
    ELSE LET shorter == SeqsUpTo(S, n - 1)
         IN  shorter \cup {Append(s, x) : s \in {q \in shorter : Len(q) = n - 1}, x \in S}

Supplies == {s * Grain : s \in 0..MaxSupply}

Demands == SeqsUpTo({d * Grain : d \in 0..MaxDemand}, MaxLen) \ {<<>>}

PartInit ==
    /\ PalmField(10, [radiation |-> 20, assim_produced |-> 10000], 0)
    /\ \E S \in Supplies, Ds \in Demands, k \in 0..KDen :
          part = [NoPart EXCEPT !.S = S, !.Ds = Ds, !.k = k]

CallPrioritized ==
    /\ part.fn = "none"
    /\ part' = [part EXCEPT !.fn = "prioritized",
                            !.Ss = prioritized_partitioning(part.S, part.Ds)]
    /\ UNCHANGED palmVars

CallProportionate ==
    /\ part.fn = "none"
    /\ part' = [part EXCEPT !.fn = "proportionate",
                            !.raised = proportionate_raises(part.S, part.Ds),
                            !.Ss = proportionate_partitioning(part.S, part.Ds)]
    /\ UNCHANGED palmVars

CallParametrized ==
    /\ part.fn = "none"
    /\ part' = [part EXCEPT !.fn = "parametrized",
                            !.raised = proportionate_raises(part.S, part.Ds),
                            !.Ss = parametrized_partitioning(part.S, part.Ds, part.k)]
    /\ UNCHANGED palmVars

\* Assimilates(): the constructor calls set_attributes, with no palm at hand
CallSetAttributes ==
    /\ part.fn = "none"
    /\ part' = [part EXCEPT !.fn = "set_attributes",
                            !.S = set_attributes_without_palm(NoAssimilates).S,
                            !.Ds = set_attributes_without_palm(NoAssimilates).Ds,
                            !.k = vegetative_priority,
                            !.raised = set_attributes_without_palm(NoAssimilates).raised]
    /\ UNCHANGED palmVars

PartNext == CallPrioritized \/ CallProportionate \/ CallParametrized \/ CallSetAttributes

PartSpec == PartInit /\ [][PartNext]_vars

\* C1: the shares returned by parametrized_partitioning and by
\* prioritized_partitioning add up to min(S, sum(D)) whenever sum(D) > 0,
\* also when S > sum(D).
C1_SharesSumToMinOfSupplyAndDemand ==
    (part.fn \in {"parametrized", "prioritized"} /\ SumSeq(part.Ds) > 0)
        => SumSeq(part.Ss) = Min(part.S, SumSeq(part.Ds))

\* C1 as amended: the shares returned by parametrized_partitioning and by
\* prioritized_partitioning add up to the supply S whenever sum(D) > 0; what
\* the demands do not claim goes to the last of them.
C1_SharesSumToSupply ==
    (part.fn \in {"parametrized", "prioritized"} /\ SumSeq(part.Ds) > 0)
        => SumSeq(part.Ss) = part.S

\* a call with more supply than demand has returned
C1_Witness ==
    /\ part.fn = "parametrized"
    /\ part.k \in 1..(KDen - 1)
    /\ Len(part.Ds) = MaxLen
    /\ SumSeq(part.Ds) > 0
    /\ part.S > SumSeq(part.Ds)
    /\ SumSeq(part.Ss) = part.S

(***************************************************************************)
(* Properties of the palm.  hist holds, for the last Cohorts.update,       *)
(* the cohorts and objects it started from (hist.cohorts, hist.heap), the  *)
(* container values the cohorts read (hist.g), the state right after       *)
(* update_existing_cohorts (hist.grown), the splits and the harvest.       *)
(***************************************************************************)
SplitsOfLastUpdate == {hist.splits[i] : i \in 1..Len(hist.splits)}

Live == {generative.cohorts[i] : i \in 1..Len(generative.cohorts)}

Obj(c) == {c.components[j] : j \in 1..Len(c.components)}

\* C2: right after update_sex splits an Indeterminate cohort, the numbers of
\* inflorescences of the male and of the female child add up to the parent's
\* (each child is rounded down to the unit of 1/100 inflorescence, so the
\* sum is the parent's number or one unit less).
C2_SplitConservesInflorescences ==
    \A s \in SplitsOfLastUpdate :
        LET total == s.male.num_inflorescences + s.female.num_inflorescences
        IN  /\ total <= s.parent.num_inflorescences
            /\ total >= s.parent.num_inflorescences - 1

\* a cohort with inflorescences has been split into two non-empty children
C2_Witness ==
    \E s \in SplitsOfLastUpdate :
        /\ s.parent.num_inflorescences > 100
        /\ s.female.num_inflorescences > 0
        /\ s.male.num_inflorescences > 0
        /\ s.female.num_inflorescences # s.male.num_inflorescences

\* C3: at a sex split the stalks of the male and of the female child carry
\* the parent stalk's mass, age and potential_mass, and parent stalk, male
\* stalk and female stalk are three different objects: no object is a
\* component of two cohorts, so no update of one reaches another.
C3_ChildStalksAreFreshCopies ==
    /\ \A s \in SplitsOfLastUpdate :
          /\ s.female_stalk.mass = s.stalk.mass
          /\ s.male_stalk.mass = s.stalk.mass
          /\ s.female_stalk.age = s.stalk.age
          /\ s.male_stalk.age = s.stalk.age
          /\ s.female_stalk.potential_mass = s.stalk.potential_mass
          /\ s.male_stalk.potential_mass = s.stalk.potential_mass
          /\ s.female.stalk # s.male.stalk
          /\ s.female.stalk # s.parent.stalk
          /\ s.male.stalk # s.parent.stalk
          /\ \A c \in Live : s.parent.stalk \notin Obj(c)
    /\ \A c1, c2 \in Live : c1.id # c2.id => Obj(c1) \cap Obj(c2) = {}
    /\ \A c \in Live : \A id \in Obj(c) : heap[id].cohort = c.id

\* a split of a cohort whose stalk has mass, while the children of an
\* earlier split are alive and have grown apart since
C3_Witness ==
    /\ \E s \in SplitsOfLastUpdate : s.stalk.mass > 0 /\ s.female_stalk.mass = s.stalk.mass
    /\ \E f, m \in Live :
          /\ f.sex = "female" /\ m.sex = "male" /\ f.age = m.age
          /\ f.has_flowered
          /\ heap[f.stalk].mass > 0
          /\ heap[m.stalk].mass > 0

\* C4: over every update of a Female cohort, up to and including the one at
\* whose end it is removed, num_inflorescences does not grow and stays >= 0.
C4_FemaleCountNeverGrows ==
    /\ \A i \in 1..Len(hist.cohorts) :
          hist.cohorts[i].sex = "female" =>
              /\ hist.grown.cohorts[i].id = hist.cohorts[i].id
              /\ hist.grown.cohorts[i].num_inflorescences <= hist.cohorts[i].num_inflorescences
              /\ hist.grown.cohorts[i].num_inflorescences >= 0
    /\ \A c \in Live : c.sex = "female" => c.num_inflorescences >= 0

\* an update has aborted a part, and not all, of a Female cohort
C4_Witness ==
    \E i \in 1..Len(hist.cohorts) :
        /\ hist.cohorts[i].sex = "female"
        /\ hist.grown.cohorts[i].num_inflorescences > 0
        /\ hist.grown.cohorts[i].num_inflorescences < hist.cohorts[i].num_inflorescences

\* C5: a Female cohort gets its mesocarp-fibers, mesocarp-oil and kernel
\* components in the first update that leaves its age above t_anthesis and
\* never again: afterwards the trigger is false, the components are the same
\* objects and their masses have lost nothing.
C5_FruitIsSetOnce ==
    \A i \in 1..Len(hist.cohorts) :
        LET c == hist.cohorts[i]
            c1 == hist.grown.cohorts[i]
        IN  c.sex = "female" =>
              /\ c1.has_flowered = (c.has_flowered
                                      \/ c1.age * TICKS > c1.t_maturity * Female_t_anthesis)
              /\ ~should_trigger_flowering(c1)
              /\ c.has_flowered =>
                    /\ c1.components = c.components
                    /\ c1.mesocarp_fibers = c.mesocarp_fibers
                    /\ c1.mesocarp_oil = c.mesocarp_oil
                    /\ c1.kernel = c.kernel
                    /\ \A id \in Obj(c) : hist.grown.heap[id].mass >= hist.heap[id].mass
              /\ ~c.has_flowered /\ c1.has_flowered =>
                    /\ Len(c1.components) = 4
                    /\ Cardinality(Obj(c1)) = 4
                    /\ {c1.mesocarp_fibers, c1.mesocarp_oil, c1.kernel} \cap DOMAIN hist.heap = {}
                    /\ c1.stalk = c.stalk
              /\ c1.has_flowered =>
                    /\ hist.grown.heap[c1.mesocarp_fibers].kind = "mesocarp_fibers"
                    /\ hist.grown.heap[c1.mesocarp_oil].kind = "mesocarp_oil"
                    /\ hist.grown.heap[c1.kernel].kind = "kernel"

\* a Female cohort that flowered in an earlier update has been updated again
\* and carries fruit mass
C5_Witness ==
    \E i \in 1..Len(hist.cohorts) :
        /\ hist.cohorts[i].sex = "female"
        /\ hist.cohorts[i].has_flowered
        /\ hist.cohorts[i].age * TICKS > hist.cohorts[i].t_maturity * Female_t_anthesis
        /\ hist.grown.heap[hist.cohorts[i].mesocarp_fibers].mass > 0
        /\ hist.grown.heap[hist.cohorts[i].mesocarp_fibers].mass
              > hist.heap[hist.cohorts[i].mesocarp_fibers].mass

\* what each organ's update assigns, from the state before the step and the
\* snapshot the step took
FrondsMassDue ==
    fronds.mass + ((73 * assimilates'.assim_growth_fronds) \div 100
                     - prune_rate_mass(fronds, DAP(time'), time', dt)) * dt

FrondsCountDue ==
    fronds.count + (count_growth_rate(DAP(time'), time')
                      - prune_rate(fronds, DAP(time'), time', dt)) * dt

TrunkMassDue ==
    trunk.mass + ((69 * assimilates'.assim_growth_trunk) \div 100
                    - parameters.trunk_mass_loss_rate) * dt

RootsMassDue ==
    roots.mass + ((69 * assimilates'.assim_growth_roots) \div 100
                    - Roots_mass_loss_rate(roots)) * dt

\* C6: a PalmField step that completes leaves fronds.mass, fronds.count,
\* trunk.mass and roots.mass at the values their rates give, all >= 0; a step
\* in which one of them comes out negative ends in an AssertionError with
\* the negative value stored, not clamped.
C6_OrgansStayNonNegative ==
    [][steps' = steps + 1 =>
          /\ status' = "ok" =>
                /\ fronds'.mass = FrondsMassDue /\ fronds'.mass >= 0
                /\ fronds'.count = FrondsCountDue /\ fronds'.count >= 0
                /\ trunk'.mass = TrunkMassDue /\ trunk'.mass >= 0
                /\ roots'.mass = RootsMassDue /\ roots'.mass >= 0
          /\ (FrondsMassDue < 0 \/ FrondsCountDue < 0 \/ TrunkMassDue < 0 \/ RootsMassDue < 0)
                => status' = "AssertionError"
          /\ (FrondsMassDue >= 0 /\ FrondsCountDue >= 0 /\ TrunkMassDue < 0)
                => trunk'.mass = TrunkMassDue
          /\ (FrondsMassDue >= 0 /\ FrondsCountDue >= 0 /\ TrunkMassDue >= 0
                /\ trunk'.lignified_mass > 0 /\ RootsMassDue < 0)
                => roots'.mass = RootsMassDue
          /\ FrondsMassDue < 0 => fronds'.mass = FrondsMassDue
          /\ (FrondsMassDue >= 0 /\ FrondsCountDue < 0) => fronds'.count = FrondsCountDue
    ]_vars

\* after some completed steps, a step has ended in the trunk's assertion
\* with the negative mass stored
C6_Witness ==
    /\ status = "AssertionError"
    /\ steps >= 3
    /\ trunk.mass < 0
    /\ fronds.mass > 0 /\ fronds.count > 0 /\ roots.mass > 0

\* C7: at the end of the update that splits an Indeterminate cohort the
\* parent is gone from the population and exactly one Female and one Male
\* child of the parent's age are in it; no cohort that was Male or Female
\* before the update is of another sex after it.
C7_SplitReplacesParentByTwoChildren ==
    /\ \A s \in SplitsOfLastUpdate :
          /\ \A c \in Live : c.id # s.parent.id
          /\ Cardinality({i \in 1..Len(generative.cohorts) :
                             /\ generative.cohorts[i].id = s.female.id
                             /\ generative.cohorts[i].sex = "female"
                             /\ generative.cohorts[i].age = s.parent.age}) = 1
          /\ Cardinality({i \in 1..Len(generative.cohorts) :
                             /\ generative.cohorts[i].id = s.male.id
                             /\ generative.cohorts[i].sex = "male"
                             /\ generative.cohorts[i].age = s.parent.age}) = 1
          /\ s.parent.sex = "indeterminate"
    /\ \A i \in 1..Len(hist.cohorts) : \A c \in Live :
          (c.id = hist.cohorts[i].id /\ hist.cohorts[i].sex # "indeterminate")
              => c.sex = hist.cohorts[i].sex
    /\ \A c \in Live :
          c.sex = "indeterminate" => ~(c.age * TICKS > c.t_differentiation)

\* an update has split a cohort while children of earlier splits live on
C7_Witness ==
    /\ \E s \in SplitsOfLastUpdate : s.parent.age > 0
    /\ \E c \in Live : c.sex = "female" /\ c.id \in {hist.cohorts[i].id : i \in 1..Len(hist.cohorts)}
    /\ \E c \in Live : c.sex = "male" /\ c.id \in {hist.cohorts[i].id : i \in 1..Len(hist.cohorts)}

SharesOfLive ==
    SumSeq([i \in 1..Len(generative.cohorts) |-> generative.cohorts[i].relative_sink_strength])

\* C8: at the end of every Cohorts.update the stored potential_sink_strength
\* is the sum of cohort_sink_strength over the cohorts left after removal,
\* and each of them has relative_sink_strength = its cohort_sink_strength
\* over that total: the shares add up to 1 (each rounded down to 1/ONE) when
\* the total is > 0 and are all 0 when it is 0.
C8_SharesAreOfThePostRemovalTotal ==
    hist.updated =>
        /\ \A c \in Live : ~is_deletable(c)
        /\ generative.potential_sink_strength =
              SumSeq([i \in 1..Len(generative.cohorts) |->
                         cohort_sink_strength(heap, generative.cohorts[i])])
        /\ \A c \in Live :
              c.relative_sink_strength =
                  IF generative.potential_sink_strength = 0 THEN 0
                  ELSE (cohort_sink_strength(heap, c) * ONE)
                          \div generative.potential_sink_strength
        /\ generative.potential_sink_strength > 0 =>
              /\ SharesOfLive <= ONE
              /\ SharesOfLive >= ONE - Len(generative.cohorts)
        /\ generative.potential_sink_strength = 0 =>
              \A c \in Live : c.relative_sink_strength = 0

\* an update that removed a harvested cohort has left several cohorts with
\* a share of a positive total
C8_Witness ==
    /\ hist.harvest # <<>>
    /\ generative.potential_sink_strength > 0
    /\ Cardinality({c \in Live : c.relative_sink_strength > 0}) >= 3
    /\ \E c \in Live : c.num_inflorescences = 0

\* C9: in one cohort update every component's mass grows by the rate that
\* the ages, sink strengths and number of inflorescences before the update
\* give; the ages (and stored sink strengths) advance after that, the
\* abortion, taken at the cohort's age before the update, after both, and
\* the cohort's age last.
C9_MassBeforeAgeBeforeAbortion ==
    \A i \in 1..Len(hist.cohorts) :
        LET c == hist.cohorts[i]
            c1 == hist.grown.cohorts[i]
        IN  /\ \A id \in Obj(c) :
                  LET before == hist.heap[id]
                      after == hist.grown.heap[id]
                  IN  /\ after.mass = before.mass
                            + mass_growth_rate(hist.heap, hist.cohorts, hist.g, before) * hist.dt
                      /\ after.age = before.age + hist.dt
                      /\ after.potential_sink_strength = get_potential_sink_strength(after)
            /\ c1.num_inflorescences =
                  (c.num_inflorescences * Max(0, ONE - abortion_fraction(c, hist.g) * hist.dt))
                      \div ONE
            /\ c1.age = c.age + hist.dt

\* a flowered cohort has been updated: its four components have grown by
\* different amounts and its inflorescences have been thinned by abortion
C9_Witness ==
    \E i \in 1..Len(hist.cohorts) :
        LET c == hist.cohorts[i]
        IN  /\ Len(c.components) = 4
            /\ \E id \in Obj(c) : hist.grown.heap[id].mass > hist.heap[id].mass
            /\ \E id \in Obj(c) :
                  mass_growth_rate(hist.heap, hist.cohorts, hist.g, hist.heap[id])
                      < mass_growth_rate_potential(hist.heap[id])

\* C10: when two or more Female cohorts are harvestible in one update, the
\* cohort recorded as the harvest is the youngest of them.
C10_HarvestIsYoungest ==
    Len(hist.harvest) >= 2 =>
        \A i \in 1..Len(hist.harvest) : generative.bunches[1].age <= hist.harvest[i].age

\* C11: Trunk.lignified_mass never decreases from one step to the next, and
\* after every step that completes lignified_mass <= mass.
C11_LignifiedMassGrowsWithinMass ==
    /\ [](status = "ok" => trunk.lignified_mass <= trunk.mass)
    /\ [][trunk'.lignified_mass >= trunk.lignified_mass]_vars

\* C12: in prioritized_partitioning and parametrized_partitioning a demand
\* of 0 at any position, the last included, receives a share of exactly 0
\* and no error is raised, whenever some other demand is positive.
C12_ZeroDemandGetsZeroShare ==
    (part.fn \in {"parametrized", "prioritized"} /\ SumSeq(part.Ds) > 0)
        => /\ ~part.raised
           /\ \A i \in 1..Len(part.Ds) : part.Ds[i] = 0 => part.Ss[i] = 0

\* C12 as amended: no error is raised and a demand of 0 before the last
\* position receives exactly 0; a demand of 0 in the last position receives
\* the prioritized weight times the supply the demands leave over,
\* max(0, S - sum(D)), which is 0 only when S <= sum(D) or k = 0.  The
\* weight is k for parametrized_partitioning and 1 for prioritized_partitioning.
C12_ZeroDemandGetsZeroShareUnlessLast ==
    (part.fn \in {"parametrized", "prioritized"} /\ SumSeq(part.Ds) > 0)
        => /\ ~part.raised
           /\ \A i \in 1..Len(part.Ds) : part.Ds[i] = 0 =>
                 part.Ss[i] = IF i < Len(part.Ds) THEN 0
                              ELSE ((IF part.fn = "prioritized" THEN KDen ELSE part.k)
                                      * Max(0, part.S - SumSeq(part.Ds))) \div KDen

\* a call with a zero demand before the last and in the last position and
\* more supply than demand has returned
C12_Witness ==
    /\ part.fn = "parametrized"
    /\ part.k \in 1..(KDen - 1)
    /\ Len(part.Ds) = MaxLen
    /\ part.Ds[1] > 0
    /\ part.Ds[2] = 0
    /\ part.Ds[MaxLen] = 0
    /\ part.S > SumSeq(part.Ds)
    /\ part.Ss[2] = 0
    /\ part.Ss[MaxLen] > 0

C14_ZeroRadiationRunsWithoutError ==
    weather.radiation = 0 =>
        /\ status = "ok"
        /\ steps > 0 =>
              /\ assimilates.assim_produced = 0
              /\ assimilates.assim_growth_total = 0
              /\ assimilates.assim_growth_vegetative = 0
              /\ assimilates.assim_growth_generative = 0
              /\ assimilates.assim_growth_fronds = 0
              /\ assimilates.assim_growth_trunk = 0
              /\ assimilates.assim_growth_roots = 0

\* C15: the stress_index of the population lies in [0, 1] and is
\* 1 - min(1, assim_growth / potential_sink_strength), and 0 when
\* potential_sink_strength is 0: both for the values the cohorts read during
\* the last Cohorts.update (the new assim_growth, the potential_sink_strength
\* of the update before) and for the values the container holds between
\* updates.
C15_StressIndexInUnitInterval ==
    \A g \in {hist.g, [assim_growth |-> generative.assim_growth,
                       potential_sink_strength |-> generative.potential_sink_strength]} :
        /\ stress_index(g) >= 0
        /\ stress_index(g) <= ONE
        /\ g.potential_sink_strength = 0 => stress_index(g) = 0
        /\ g.potential_sink_strength # 0 =>
              stress_index(g)
                  = ONE - Min(ONE, (g.assim_growth * ONE) \div g.potential_sink_strength)

\* the cohorts of the last update have read a stress strictly between 0 and
\* 1, and the container holds a positive potential sink strength after it
C15_Witness ==
    /\ hist.updated
    /\ hist.g.potential_sink_strength > 0
    /\ stress_index(hist.g) > 0
    /\ stress_index(hist.g) < ONE
    /\ generative.potential_sink_strength > 0
    /\ generative.assim_growth = hist.g.assim_growth

\* C16: in every update the realized mass growth rate of every bunch
\* component is min(potential rate at the component's age,
\* conversion_efficiency * allocated assimilate); it is never negative and
\* never above the potential rate, the mass grows by it and so never
\* decreases, and at an age outside the growth window
\* [t_growth_start, t_growth_end] the mass does not change.
C16_GrowthRateWithinPotential ==
    \A i \in 1..Len(hist.cohorts) : \A id \in Obj(hist.cohorts[i]) :
        LET before == hist.heap[id]
            after == hist.grown.heap[id]
            rate == mass_growth_rate(hist.heap, hist.cohorts, hist.g, before)
        IN  /\ rate = Min(mass_growth_rate_potential(before),
                          (conversion_efficiency[before.kind]
                             * BunchComponent_assim_growth(hist.heap, hist.cohorts, hist.g, before))
                            \div 100)
            /\ rate >= 0
            /\ rate <= mass_growth_rate_potential(before)
            /\ after.mass = before.mass + rate * hist.dt
            /\ after.mass >= before.mass
            /\ (\/ before.age * TICKS <= before.t_maturity * t_growth_start[before.kind]
                \/ before.age * TICKS >= before.t_maturity * t_growth_end[before.kind])
                  => after.mass = before.mass

\* the last update has grown one component below its potential rate, and
\* has left a component that is not yet in its growth window without mass
\* although its cohort was given assimilates
C16_Witness ==
    /\ \E i \in 1..Len(hist.cohorts) : \E id \in Obj(hist.cohorts[i]) :
          /\ mass_growth_rate(hist.heap, hist.cohorts, hist.g, hist.heap[id]) > 0
          /\ mass_growth_rate(hist.heap, hist.cohorts, hist.g, hist.heap[id])
                < mass_growth_rate_potential(hist.heap[id])
          /\ hist.grown.heap[id].mass > hist.heap[id].mass
    /\ \E i \in 1..Len(hist.cohorts) : \E id \in Obj(hist.cohorts[i]) :
          /\ hist.heap[id].age * TICKS
                <= hist.heap[id].t_maturity * t_growth_start[hist.heap[id].kind]
          /\ hist.heap[id].kind # "stalk"
          /\ assim_growth_organ(hist.cohorts[i], hist.g) > 0
          /\ hist.grown.heap[id].mass = hist.heap[id].mass

\* C17: proportionate_partitioning and parametrized_partitioning called with
\* demands that add up to 0 raise (ZeroDivisionError) and return no shares,
\* and so does set_attributes of a partitioner whose vegetative and
\* generative potential sink strengths are both 0.
C17_ZeroTotalDemandRaises ==
    /\ (part.fn \in {"proportionate", "parametrized"} /\ SumSeq(part.Ds) = 0)
          => (part.raised /\ part.Ss = <<>>)
    /\ (part.fn \in {"proportionate", "parametrized"} /\ SumSeq(part.Ds) > 0)
          => (~part.raised /\ Len(part.Ss) = Len(part.Ds))
    /\ (part.fn = "set_attributes" /\ SumSeq(part.Ds) = 0)
          => (part.raised /\ part.Ss = <<>>)

\* a call with several demands, all of them 0, and a positive supply has raised
C17_Witness ==
    /\ part.fn \in {"proportionate", "parametrized"}
    /\ Len(part.Ds) > 1
    /\ SumSeq(part.Ds) = 0
    /\ part.S > 0
    /\ part.raised

\* C18: for a supply S >= 0, non-negative demands with a positive sum and k
\* in [0,1], every share returned by parametrized_partitioning(S, D, k) is
\* at least 0 and at most max(S, Di).
C18_ShareWithinSupplyOrDemand ==
    (part.fn = "parametrized" /\ SumSeq(part.Ds) > 0)
        => /\ ~part.raised
           /\ Len(part.Ss) = Len(part.Ds)
           /\ \A i \in 1..Len(part.Ds) :
                 part.Ss[i] >= 0 /\ part.Ss[i] <= Max(part.S, part.Ds[i])

\* a call with 0 < k < 1 and more supply than demand: the last share is
\* above its demand, and so is an earlier one, each below the supply
C18_Witness ==
    /\ part.fn = "parametrized"
    /\ part.k \in 1..(KDen - 1)
    /\ Len(part.Ds) > 1
    /\ ~part.raised
    /\ part.Ss[Len(part.Ds)] > part.Ds[Len(part.Ds)]
    /\ \E i \in 1..(Len(part.Ds) - 1) :
          part.Ds[i] > 0 /\ part.Ss[i] > part.Ds[i] /\ part.Ss[i] < part.S

\* the supply that the demands before position i leave over
RemainingSupply(S, Ds, i) == Max(0, S - SumSeq(SubSeq(Ds, 1, i - 1)))

\* C19: prioritized_partitioning serves the demands in list order, each but
\* the last getting the smaller of its demand and the supply still left, and
\* the last getting all that is left; so (2,[1.5,1]) gives [1.5,0.5],
\* (2,[1,1]) gives [1,1], (2,[2,1]) gives [2,0] and (4,[2,1]) gives [2,2].
C19_PrioritizedFillsInOrder ==
    part.fn = "prioritized"
        => /\ Len(part.Ss) = Len(part.Ds)
           /\ \A i \in 1..(Len(part.Ds) - 1) :
                 part.Ss[i] = Min(part.Ds[i], RemainingSupply(part.S, part.Ds, i))
           /\ part.Ss[Len(part.Ds)] = RemainingSupply(part.S, part.Ds, Len(part.Ds))
           /\ (part.S = 4 * Grain /\ part.Ds = <<3 * Grain, 2 * Grain>>)
                 => part.Ss = <<3 * Grain, Grain>>
           /\ (part.S = 2 * Grain /\ part.Ds = <<Grain, Grain>>)
                 => part.Ss = <<Grain, Grain>>
           /\ (part.S = 2 * Grain /\ part.Ds = <<2 * Grain, Grain>>)
                 => part.Ss = <<2 * Grain, 0>>
           /\ (part.S = 4 * Grain /\ part.Ds = <<2 * Grain, Grain>>)
                 => part.Ss = <<2 * Grain, 2 * Grain>>

\* prioritized_partitioning(4, [2, 1]) has returned [2, 2]
C19_Witness ==
    /\ part.fn = "prioritized"
    /\ part.S = 4 * Grain
    /\ part.Ds = <<2 * Grain, Grain>>
    /\ part.Ss = <<2 * Grain, 2 * Grain>>

\* C20: for a supply S >= 0 and demands with a positive sum,
\* proportionate_partitioning gives every demand Di the share
\* S * Di / sum(D), so that the shares are in the ratio of the demands and
\* add up to S; (6,[2,1]) gives [4,2] and (2,[1,1]) gives [1,1].  The
\* demands are counted in units of Grain to keep the products small.
C20_ProportionateSharesInRatioOfDemands ==
    (part.fn = "proportionate" /\ SumSeq(part.Ds) > 0)
        => /\ ~part.raised
           /\ Len(part.Ss) = Len(part.Ds)
           /\ \A i \in 1..Len(part.Ds) :
                 part.Ss[i] * (SumSeq(part.Ds) \div Grain) = part.S * (part.Ds[i] \div Grain)
           /\ \A i, j \in 1..Len(part.Ds) :
                 part.Ss[i] * (part.Ds[j] \div Grain) = part.Ss[j] * (part.Ds[i] \div Grain)
           /\ SumSeq(part.Ss) = part.S
           /\ (part.S = 6 * Grain /\ part.Ds = <<2 * Grain, Grain>>)
                 => part.Ss = <<4 * Grain, 2 * Grain>>
           /\ (part.S = 2 * Grain /\ part.Ds = <<Grain, Grain>>)
                 => part.Ss = <<Grain, Grain>>

\* proportionate_partitioning(6, [2, 1]) has returned [4, 2]
C20_Witness ==
    /\ part.fn = "proportionate"
    /\ part.S = 6 * Grain
    /\ part.Ds = <<2 * Grain, Grain>>
    /\ part.Ss = <<4 * Grain, 2 * Grain>>

\* C21: at the end of every Cohorts.update no Indeterminate cohort for which
\* should_differentiate holds (age >= t_differentiation, age =
\* t_differentiation included) is left in the population.
C21_NoDifferentiableIndeterminateLeft ==
    hist.updated =>
        \A c \in Live : c.sex = "indeterminate" => ~should_differentiate(c)

\* C22: after every Cohorts.update the harvest set recorded for the yield
\* outputs is the one of that update: the first of the Females harvestible
\* in it, and no cohort when none was harvestible.
C22_RecordedHarvestIsOfThisUpdate ==
    hist.updated =>
        generative.bunches =
            IF hist.harvest # <<>> THEN <<hist.harvest[1]>> ELSE <<>>

\* C23: in every completed PalmField step the partitioner snapshot is the one
\* taken at the new date from the organs and cohorts as the previous step
\* left them, and the fronds, the trunk, the roots and the cohorts are all
\* updated with the allocations of that one snapshot, whatever the organs
\* updated before them have changed.
C23_OrgansConsumeOneSnapshot ==
    [][(hist'.updated /\ steps' = steps + 1 /\ status' = "ok")
          => \E a \in {set_attributes(assimilates, Palm(time'))} :
                /\ a.status = "ok"
                /\ assimilates' = a.obj
                /\ fronds' = Fronds_update(fronds, a.obj, DAP(time'), time', dt).obj
                /\ trunk' = Trunk_update(trunk, a.obj, parameters, time', dt).obj
                /\ roots' = Roots_update(roots, a.obj, dt).obj
                /\ hist'.g.assim_growth = a.obj.assim_growth_generative
                /\ generative' = Cohorts_update(generative, heap, nextId,
                                                a.obj.assim_growth_generative,
                                                DAP(time'), time', dt).generative]_vars

\* a step has handed a positive allocation to the fronds, the trunk, the
\* roots and the cohorts, and a snapshot taken after it would differ
C23_Witness ==
    /\ hist.updated
    /\ status = "ok"
    /\ assimilates.assim_growth_fronds > 0
    /\ assimilates.assim_growth_trunk > 0
    /\ assimilates.assim_growth_roots > 0
    /\ assimilates.assim_growth_generative > 0
    /\ hist.g.assim_growth = assimilates.assim_growth_generative
    /\ set_attributes(assimilates, Palm(time)).obj.assim_growth_trunk
          # assimilates.assim_growth_trunk

\* C24: the t_maturity that the Male and Female children receive at the
\* split is the t_maturity from which the t_differentiation of their
\* Indeterminate parent was computed at its creation.
C24_LineageSharesOneMaturity ==
    \A s \in SplitsOfLastUpdate :
        /\ s.female.t_maturity * Indeterminate_t_differentiation = s.parent.t_differentiation
        /\ s.male.t_maturity * Indeterminate_t_differentiation = s.parent.t_differentiation

C26_OneNewIndeterminatePerUpdate ==
    (hist.updated /\ status = "ok") =>
        LET n == Len(generative.cohorts)
            known == {hist.cohorts[i].id : i \in 1..Len(hist.cohorts)}
                       \cup {s.female.id : s \in SplitsOfLastUpdate}
                       \cup {s.male.id : s \in SplitsOfLastUpdate}
        IN  /\ n > 0
            /\ {i \in 1..n : generative.cohorts[i].id \notin known} = {n}
            /\ generative.cohorts[n].sex = "indeterminate"
            /\ generative.cohorts[n].age = 0
            /\ generative.cohorts[n].components = <<generative.cohorts[n].stalk>>
            /\ heap[generative.cohorts[n].stalk].kind = "stalk"
            /\ heap[generative.cohorts[n].stalk].mass = 0
            /\ heap[generative.cohorts[n].stalk].age = 0
            /\ generative.cohorts[n].num_inflorescences
                  = initiation_rate(DAP(time), time) * hist.dt

\* an update of 31 days that has split a cohort and removed one has appended
\* a new cohort with a positive number of inflorescences
C26_Witness ==
    /\ hist.updated
    /\ hist.dt = 31
    /\ hist.splits # <<>>
    /\ hist.harvest # <<>>
    /\ generative.cohorts[Len(generative.cohorts)].num_inflorescences > 0
    /\ generative.cohorts[Len(generative.cohorts)].age = 0

\* C27: in every partitioner update the growth pool is max(0, assimilate
\* produced - total maintenance); the allocations to the fronds, the trunk,
\* the roots and the cohorts are each >= 0; those of the fronds, the trunk
\* and the roots add up to the vegetative allocation (each rounded down to
\* the gram, so up to 2 g less); and the vegetative and the generative
\* allocation together do not exceed the growth pool.
C27_AllocationsWithinGrowthPool ==
    status = "ok" =>
        /\ assimilates.assim_maintenance_total =
              assimilates.assim_maintenance_fronds + assimilates.assim_maintenance_trunk
                + assimilates.assim_maintenance_roots + assimilates.assim_maintenance_generative
        /\ assimilates.assim_growth_total =
              Max(0, assimilates.assim_produced - assimilates.assim_maintenance_total)
        /\ assimilates.assim_growth_fronds >= 0
        /\ assimilates.assim_growth_trunk >= 0
        /\ assimilates.assim_growth_roots >= 0
        /\ assimilates.assim_growth_generative >= 0
        /\ assimilates.assim_growth_fronds + assimilates.assim_growth_trunk
              + assimilates.assim_growth_roots <= assimilates.assim_growth_vegetative
        /\ assimilates.assim_growth_fronds + assimilates.assim_growth_trunk
              + assimilates.assim_growth_roots >= assimilates.assim_growth_vegetative - 2
        /\ assimilates.assim_growth_vegetative + assimilates.assim_growth_generative
              <= assimilates.assim_growth_total

\* an update in which maintenance is more than what was produced: the pool
\* and every allocation are 0
C27_Witness ==
    /\ status = "ok"
    /\ hist.updated
    /\ assimilates.assim_produced < assimilates.assim_maintenance_total
    /\ assimilates.assim_maintenance_fronds > 0
    /\ assimilates.assim_growth_total = 0
    /\ assimilates.assim_growth_vegetative = 0
    /\ assimilates.assim_growth_generative = 0

\* C28: the generative allocation of an update is the share partitioned to
\* the generative demand, cut at the generative potential sink strength the
\* partitioning was given, and so never exceeds it; it is 0 when that demand
\* is 0; and what is cut off goes to no organ: the allocations to the
\* fronds, the trunk, the roots and the cohorts together stay below the
\* growth pool by at least the amount cut.
C28_GenerativeAllocationCutAtPotential ==
    (status = "ok" /\ hist.updated) =>
        \E raw \in {parametrized_partitioning(
                        assimilates.assim_growth_total,
                        <<assimilates.potential_sink_strength_vegetative,
                          hist.g.potential_sink_strength>>,
                        vegetative_priority)} :
            /\ assimilates.assim_growth_generative
                  = Min(raw[2], hist.g.potential_sink_strength)
            /\ assimilates.assim_growth_generative <= hist.g.potential_sink_strength
            /\ hist.g.potential_sink_strength = 0
                  => assimilates.assim_growth_generative = 0
            /\ hist.g.assim_growth = assimilates.assim_growth_generative
            /\ assimilates.assim_growth_vegetative = raw[1]
            /\ assimilates.assim_growth_fronds + assimilates.assim_growth_trunk
                  + assimilates.assim_growth_roots + assimilates.assim_growth_generative
                  <= assimilates.assim_growth_total
                        - Max(0, raw[2] - hist.g.potential_sink_strength)

\* an update whose growth pool exceeds the vegetative and the positive
\* generative demand together: the cohorts get their demand, and less than
\* the pool is handed out
C28_Witness ==
    /\ status = "ok"
    /\ hist.updated
    /\ hist.g.potential_sink_strength > 0
    /\ assimilates.assim_growth_total
          > assimilates.potential_sink_strength_vegetative + hist.g.potential_sink_strength
    /\ assimilates.assim_growth_generative = hist.g.potential_sink_strength
    /\ assimilates.assim_growth_vegetative + assimilates.assim_growth_generative
          < assimilates.assim_growth_total

\* C29: at every point of a run the recorded harvest set holds at most one
\* cohort; that cohort is a Female past its t_maturity that has flowered and
\* owns a stalk, mesocarp-fibers, mesocarp-oil and kernel component, and it
\* is no longer in the live population; in an update with harvestible
\* Females it is the first of them, and none of them is left in the
\* population.
C29_RecordedHarvestIsOneFloweredFemale ==
    /\ Len(generative.bunches) <= 1
    /\ \A i \in 1..Len(generative.bunches) :
          /\ generative.bunches[i].sex = "female"
          /\ generative.bunches[i].age >= generative.bunches[i].t_maturity
          /\ generative.bunches[i].has_flowered
          /\ Len(generative.bunches[i].components) = 4
          /\ heap[generative.bunches[i].stalk].kind = "stalk"
          /\ heap[generative.bunches[i].mesocarp_fibers].kind = "mesocarp_fibers"
          /\ heap[generative.bunches[i].mesocarp_oil].kind = "mesocarp_oil"
          /\ heap[generative.bunches[i].kernel].kind = "kernel"
          /\ \A c \in Live : c.id # generative.bunches[i].id
    /\ (hist.updated /\ hist.harvest # <<>>) =>
          /\ generative.bunches = <<hist.harvest[1]>>
          /\ \A k \in 1..Len(hist.harvest) : \A c \in Live : c.id # hist.harvest[k].id

\* an update with dt = 31 in which two Females were harvestible has recorded
\* the first of them
C29_Witness ==
    /\ hist.updated
    /\ hist.dt = 31
    /\ Len(hist.harvest) > 1
    /\ Len(generative.bunches) = 1
    /\ generative.bunches[1].id = hist.harvest[1].id
    /\ generative.bunches[1].has_flowered

\* C30: a Fronds update of a completed PalmField step leaves the frond count
\* at min(count before + initiation rate * planting density * dt, goal count
\* of the step): pruning takes the excess over the goal count (its daily
\* rate rounded down to 1/100 frond, so up to dt - 1 hundredths of a frond
\* stay), and the count never goes below 0.
C30_FrondCountIsMinOfAvailableAndGoal ==
    [][(steps' = steps + 1 /\ status' = "ok")
          => \E available \in {fronds.count + count_growth_rate(DAP(time'), time') * dt} :
             \E goal \in {fronds_goal_count(DAP(time'), time')} :
                /\ fronds'.count >= Min(available, goal)
                /\ fronds'.count <= Min(available, goal) + (dt - 1)
                /\ fronds'.count >= 0
                /\ available <= goal => fronds'.count = available]_vars

\* an update of 31 days has pruned the fronds down to the goal count
C30_Witness ==
    /\ status = "ok"
    /\ hist.updated
    /\ hist.dt = 31
    /\ fronds.count >= fronds_goal_count(DAP(time), time)
    /\ fronds.count <= fronds_goal_count(DAP(time), time) + 30

====
